---- MODULE Spec2Model ----
(***************************************************************************)
(* Model of convert_any_to_mp4_gui.py: the conversion worker               *)
(* (ConverterWorker.run), the progress store (load_json / save_json /      *)
(* already_done / mark_progress), the command builders and the cleanup     *)
(* pass (cleanup_from_progress).                                           *)
(*                                                                         *)
(* Paths are strings and are taken apart character by character (Len,      *)
(* SubSeq), as os.path.splitext does.  A file is NoFile or a record        *)
(* [size, mtime_ns]: exactly what os.stat yields for file_sig.             *)
(* A progress record is [dst, success, sig]; the write-only "updated_at"   *)
(* stamp of mark_progress is never read by the program and is left out.    *)
(***************************************************************************)
EXTENDS Integers, Sequences, FiniteSets, TLC

VARIABLES
    FFMPEG_BIN,   \* path of ffmpeg, "" when resolve_media_bins found none
    FFPROBE_BIN,  \* path of ffprobe, "" when resolve_media_bins found none
    fs,           \* the file system: path -> NoFile or [size, mtime_ns]
    store,        \* content of progress.json (PROGRESS_DB_FILE)
    tmp,          \* content of progress.json.tmp
    failed_txt,   \* content of failed.txt: the appended paths, in order
    tasks,        \* ConverterWorker.tasks (collect_inputs of the listbox)
    opts,         \* ConverterWorker.opts
    pc,           \* position of the worker thread in run()
    db,           \* run(): the in-memory progress mapping
    idx,          \* run(): idx
    success,      \* run(): success
    skipped,      \* run(): skipped
    ok,           \* run(): ok, FALSE outside the loop body
    stop_flag,    \* ConverterWorker._stop
    ui_queue,     \* the non-log messages put on ui_queue, in order
    calls,        \* external runs made for the task in hand
    outcome,      \* per task index: pending / skipped / converted / failed
    last,         \* exit code and destination size of the last conversion
    removed_by_run, \* sources delete_file removed in maybe_delete_source
    run_no,       \* 0 before the first run, then the number of the run
    first_run,    \* outcomes of the first run once a second one is started
    touched,      \* files changed from outside since the first run started
    made_by,      \* per destination: the source whose ffmpeg run wrote it last
    cpc,          \* position of the cleanup thread
    cargs,        \* cleanup_from_progress arguments
    cdb,          \* cleanup_from_progress: db
    ctodo,        \* keys of db.items() not yet visited
    ccount,       \* the eight tallies of cleanup_from_progress
    clast,        \* the record the cleanup pass handled last, and what it did
    probe,        \* result of the last application of already_done
    spc,          \* position of a thread inside save_json
    sold,         \* content of the store when that save_json was entered
    nsaves,       \* number of save_json calls entered
    loaded        \* what a concurrent load_json returned during the save

vars == << FFMPEG_BIN, FFPROBE_BIN, fs, store, tmp, failed_txt, tasks, opts,
           pc, db, idx, success, skipped, ok, stop_flag, ui_queue, calls,
           outcome, last, removed_by_run, run_no, first_run,
           touched, made_by, cpc, cargs, cdb, ctodo, ccount, clast, probe,
           spc, sold, nsaves, loaded >>

runVars == << tasks, opts, pc, db, idx, success, skipped, ok, stop_flag,
              ui_queue, calls, outcome, last, removed_by_run,
              run_no, first_run >>

cleanVars == << cpc, cargs, cdb, ctodo, ccount, clast >>

saveVars == << spc, sold, nsaves, loaded >>

-----------------------------------------------------------------------------
(* Bounds of the model *)

\* longest task queue of a run
MaxTasks == 2

\* largest number of records in a progress store drawn for a cleanup pass
MaxRecords == 2

-----------------------------------------------------------------------------
(* Constants of the program *)

INPUT_EXTS == {".mkv", ".webm", ".ogv"}

AUDIO_OK_FOR_MP4 == {"aac", "mp3"}

DEFAULT_CRF == "18"

DEFAULT_PRESET == "slow"

DEFAULT_TUNE == ""

AUDIO_BITRATE == "192k"

\* Python's None
None == [none |-> TRUE]

\* a path that names no file
NoFile == [exists |-> FALSE]

-----------------------------------------------------------------------------
(* The files of the model *)

Sources == {"/v/a.mkv", "/v/a.webm", "/w/b.OGV"}

Dests == {"/v/a.mp4", "/w/b.mp4"}

Files == Sources \cup Dests

\* the folders: the root, the two folders of the sources, and a folder
\* named like the stem of a source next to it
Dirs == {"/", "/v", "/w", "/v/a"}

\* the signatures a source file takes: they differ in one field or in both
Sig(sz, mt) == [size |-> sz, mtime_ns |-> mt]

Sigs == {Sig(sz, mt) : sz \in {10, 20}, mt \in {100, 200}}

FreshSig == Sig(10, 100)

\* what ffmpeg leaves at the destination: an empty or a non-empty file
EmptyOut == Sig(0, 100)

FullOut == Sig(50, 100)

-----------------------------------------------------------------------------
(* Strings *)

CharAt(s, i) == SubSeq(s, i, i)

\* str.rfind(c) + 1: the last position of character c in s, 0 when absent
RFind(s, c) ==
    LET hits == {i \in 1..Len(s) : CharAt(s, i) = c}
    IN  IF hits = {} THEN 0 ELSE CHOOSE i \in hits : \A j \in hits : j <= i

LowerChar(c) ==
    CASE c = "A" -> "a" [] c = "B" -> "b" [] c = "C" -> "c" [] c = "D" -> "d"
      [] c = "E" -> "e" [] c = "F" -> "f" [] c = "G" -> "g" [] c = "H" -> "h"
      [] c = "I" -> "i" [] c = "J" -> "j" [] c = "K" -> "k" [] c = "L" -> "l"
      [] c = "M" -> "m" [] c = "N" -> "n" [] c = "O" -> "o" [] c = "P" -> "p"
      [] c = "Q" -> "q" [] c = "R" -> "r" [] c = "S" -> "s" [] c = "T" -> "t"
      [] c = "U" -> "u" [] c = "V" -> "v" [] c = "W" -> "w" [] c = "X" -> "x"
      [] c = "Y" -> "y" [] c = "Z" -> "z" [] OTHER -> c

RECURSIVE lower(_)
lower(s) == IF s = "" THEN "" ELSE LowerChar(Head(s)) \o lower(Tail(s))

StartsWith(s, prefix) ==
    Len(prefix) <= Len(s) /\ SubSeq(s, 1, Len(prefix)) = prefix

\* os.path.splitext: <<root, ext>>; the extension starts at the last dot of
\* the last component, unless that component is made of leading dots only
splitext(p) ==
    LET sepIndex == RFind(p, "/")
        dotIndex == RFind(p, ".")
    IN  IF /\ dotIndex > sepIndex
           /\ \E k \in (sepIndex + 1)..(dotIndex - 1) : CharAt(p, k) # "."
        THEN << SubSeq(p, 1, dotIndex - 1), SubSeq(p, dotIndex, Len(p)) >>
        ELSE << p, "" >>

\* dest_path and the lower-cased extension of the model's sources,
\* computed once
DestOf == [s \in Sources |-> splitext(s)[1] \o ".mp4"]

ExtTable == [s \in Sources |-> lower(splitext(s)[2])]

dest_path(src) ==
    IF src \in Sources THEN DestOf[src] ELSE splitext(src)[1] \o ".mp4"

\* os.path.splitext(src)[1].lower()
ExtOf(src) ==
    IF src \in Sources THEN ExtTable[src] ELSE lower(splitext(src)[2])

-----------------------------------------------------------------------------
(* File system and progress store *)

exists(f, path) == path \in DOMAIN f /\ f[path] # NoFile

\* os.stat(path): defined when the file exists (FileNotFoundError otherwise)
file_sig(f, path) == [size |-> f[path].size, mtime_ns |-> f[path].mtime_ns]

getsize(f, path) == f[path].size

\* dict.get(key): None when the key is absent
Get(d, k) == IF k \in DOMAIN d THEN d[k] ELSE None

\* a Python mapping is falsy when it is None or empty
Truthy(v) == v # None /\ v # <<>> /\ DOMAIN v # {}

Put(d, k, v) == [x \in DOMAIN d \cup {k} |-> IF x = k THEN v ELSE d[x]]

EmptyDb == <<>>

\* already_done comparing the sizes only: a change of the modification
\* time alone goes unnoticed
already_done_size_only(d, src, dst, f) ==
    LET rec == Get(d, src)
    IN  IF ~Truthy(rec) THEN FALSE
        ELSE IF ~exists(f, dst) THEN FALSE
        ELSE IF ~exists(f, src) THEN FALSE
        ELSE /\ rec.success = TRUE
             /\ rec.sig # None
             /\ rec.sig.size = file_sig(f, src).size

already_done(d, src, dst, f) ==
    LET rec == Get(d, src)
    IN  IF ~Truthy(rec) THEN FALSE
        ELSE IF ~exists(f, dst) THEN FALSE
        ELSE IF ~exists(f, src) THEN FALSE
        ELSE rec.success = TRUE /\ rec.sig = file_sig(f, src)

\* mark_progress that never stores a signature
mark_progress_without_sig(d, src, dst, succ, f) ==
    Put(d, src, [dst |-> dst, success |-> succ, sig |-> None])

mark_progress(d, src, dst, succ, f) ==
    LET sig == IF exists(f, src) THEN file_sig(f, src) ELSE None
    IN  Put(d, src, [dst |-> dst, success |-> succ, sig |-> sig])

\* A file of JSON text: the entries written so far and whether the closing
\* brace is there.  json.dump writes the text piece by piece.
Content(d, closed) == [data |-> d, closed |-> closed]

Dump(d) == Content(d, TRUE)

\* load_json: the mapping of the file, {} when it is missing, empty or cut
load_json(c) ==
    IF c = NoFile THEN EmptyDb
    ELSE IF c.closed THEN c.data
    ELSE EmptyDb

\* A JSON document whose top-level value is not an object (a list, null, a
\* number, a string): json.loads returns that value, and load_json hands
\* it on as it is.  truthy is the value's truth in Python ([] and null are
\* falsy, [1] is truthy).
JsonValue(kind, truthy) == [json |-> kind, truthy |-> truthy]

\* a dict: what has .get, .items and item assignment by a string key
IsMapping(d) == "json" \notin DOMAIN d

\* `if not db` as the cleanup pass tests what load_json returned
DbTruthy(d) == IF IsMapping(d) THEN d # EmptyDb ELSE d.truthy

-----------------------------------------------------------------------------
(* Probing *)

Stream(type, name) == [codec_type |-> type, codec_name |-> name]

\* what a probing run yields: the streams it reports, or an exception
Probed(streams) == [raised |-> FALSE, streams |-> streams]

ProbeRaised == [raised |-> TRUE, streams |-> <<>>]

\* ffprobe(filter_type, path).  json is the outcome of the ffprobe run (its
\* "streams" list); stderr_audio is the outcome of `ffmpeg -i`: the streams
\* its "Audio: <codec>" lines yield, which the fallback lower-cases.
ffprobe(filter_type, json, stderr_audio) ==
    IF FFPROBE_BIN # "" /\ ~json.raised
    THEN SelectSeq(json.streams, LAMBDA s : s.codec_type = filter_type)
    ELSE IF stderr_audio.raised THEN <<>>
    ELSE IF filter_type = "audio"
    THEN [i \in 1..Len(stderr_audio.streams) |->
            Stream("audio", lower(stderr_audio.streams[i].codec_name))]
    ELSE <<>>

\* the audio check comparing the codec names as they are reported
should_transcode_audio_case_sensitive(streams) ==
    IF streams = <<>> THEN FALSE
    ELSE \E i \in 1..Len(streams) :
            streams[i].codec_name \notin AUDIO_OK_FOR_MP4

\* should_transcode_audio_for_mkv(src), given ffprobe("audio", src); a
\* stream without codec_name has the name ""
should_transcode_audio_for_mkv(streams) ==
    IF streams = <<>> THEN FALSE
    ELSE \E i \in 1..Len(streams) :
            lower(streams[i].codec_name) \notin AUDIO_OK_FOR_MP4

-----------------------------------------------------------------------------
(* Command builders *)

\* a remux command that copies the audio whatever it is asked
build_remux_always_copy_audio(src, dst, transcode_audio, keep_text_subs) ==
    << FFMPEG_BIN, "-loglevel", "warning", "-hide_banner", "-nostats", "-y",
       "-fflags", "+genpts+discardcorrupt", "-err_detect", "ignore_err",
       "-i", src, "-map", "0:v?", "-map", "0:a?", "-c:v", "copy",
       "-c:a", "copy" >>
    \o (IF keep_text_subs
        THEN << "-map", "0:s?", "-c:s", "mov_text" >>
        ELSE <<>>)
    \o << "-avoid_negative_ts", "make_zero", "-movflags", "+faststart", dst >>

build_ffmpeg_cmd_remux_mkv(src, dst, transcode_audio, keep_text_subs) ==
    << FFMPEG_BIN, "-loglevel", "warning", "-hide_banner", "-nostats", "-y",
       "-fflags", "+genpts+discardcorrupt", "-err_detect", "ignore_err",
       "-i", src, "-map", "0:v?", "-map", "0:a?", "-c:v", "copy" >>
    \o (IF transcode_audio
        THEN << "-c:a", "aac", "-b:a", AUDIO_BITRATE,
                "-af", "aresample=async=1:first_pts=0" >>
        ELSE << "-c:a", "copy" >>)
    \o (IF keep_text_subs
        THEN << "-map", "0:s?", "-c:s", "mov_text" >>
        ELSE <<>>)
    \o << "-avoid_negative_ts", "make_zero", "-movflags", "+faststart", dst >>

\* a transcode command that passes the configured crf even when lossless
build_transcode_lossless_keeps_crf(src, dst, crf, preset, tune, lossless) ==
    << FFMPEG_BIN, "-loglevel", "warning", "-hide_banner", "-nostats", "-y",
       "-fflags", "+genpts+discardcorrupt", "-err_detect", "ignore_err",
       "-i", src, "-map", "0:v:0?", "-map", "0:a:0?", "-c:v", "libx264",
       "-preset", preset, "-crf", crf, "-pix_fmt", "yuv420p" >>
    \o (IF tune # "" THEN << "-tune", tune >> ELSE <<>>)
    \o << "-c:a", "aac", "-b:a", AUDIO_BITRATE >>
    \o << "-avoid_negative_ts", "make_zero", "-movflags", "+faststart", dst >>

\* tune is "" for None, which is what process_transcode passes for an
\* empty tune
build_ffmpeg_cmd_transcode(src, dst, crf, preset, tune, lossless) ==
    << FFMPEG_BIN, "-loglevel", "warning", "-hide_banner", "-nostats", "-y",
       "-fflags", "+genpts+discardcorrupt", "-err_detect", "ignore_err",
       "-i", src, "-map", "0:v:0?", "-map", "0:a:0?", "-c:v", "libx264" >>
    \o (IF lossless
        THEN << "-preset", (IF preset # "" THEN preset ELSE "veryslow"),
                "-crf", "0", "-pix_fmt", "yuv420p" >>
        ELSE << "-preset", preset, "-crf", crf, "-pix_fmt", "yuv420p" >>)
    \o (IF tune # "" THEN << "-tune", tune >> ELSE <<>>)
    \o << "-c:a", "aac", "-b:a", AUDIO_BITRATE >>
    \o << "-avoid_negative_ts", "make_zero", "-movflags", "+faststart", dst >>

-----------------------------------------------------------------------------
(* External conversion process *)

\* What starting ffmpeg does (run_ffmpeg_with_streaming, up to the wait):
\* it cannot be launched (Popen raises), or the process runs and leaves
\* the destination alone ("keep"), empty or non-empty.
Launches == {"raised", "keep", "empty", "full"}

\* what proc.wait() returns
ExitCodes == {0, 1}

\* the file system once the process has run
RunEffect(f, dst, out) ==
    IF out \in {"raised", "keep"} THEN f
    ELSE [f EXCEPT ![dst] = IF out = "empty" THEN EmptyOut ELSE FullOut]

\* who wrote which destination last, once ffmpeg has run for src
MadeBy(m, dst, src, out) ==
    IF out \in {"raised", "keep"} THEN m ELSE [m EXCEPT ![dst] = src]

\* no destination was written by a conversion of the model's sources
Unmade == [d \in Dests |-> ""]

\* the writers of the destinations a store has records for: each existing
\* destination was written last by one of the sources recorded with it
Makers(f, d) ==
    { m \in [Dests -> Sources \cup {""}] :
        \A dst \in Dests :
            IF exists(f, dst) /\ \E s \in DOMAIN d : d[s].dst = dst
            THEN m[dst] \in {s \in DOMAIN d : d[s].dst = dst}
            ELSE m[dst] = "" }

\* a success check that trusts the exit code alone
conversion_ok_exit_code_only(rc, f, dst) == rc = 0

\* a success check that accepts an empty destination
conversion_ok_any_size(rc, f, dst) == rc = 0 /\ exists(f, dst)

\* the success check of process_mkv and process_transcode
conversion_ok(rc, f, dst) ==
    rc = 0 /\ exists(f, dst) /\ getsize(f, dst) > 0

-----------------------------------------------------------------------------
(* Deletion *)

\* a deletion that tries the trash whatever permanent says
delete_file_trash_first(f, path, permanent, trash_ok, remove_ok) ==
    IF trash_ok /\ exists(f, path)
    THEN [fs |-> [f EXCEPT ![path] = NoFile], method |-> "trashed"]
    ELSE IF remove_ok /\ exists(f, path)
    THEN [fs |-> [f EXCEPT ![path] = NoFile], method |-> "deleted"]
    ELSE [fs |-> f, method |-> "raised"]

\* delete_file(path, permanent).  trash_ok: send2trash is installed and
\* works; remove_ok: os.remove is permitted.  Both raise on a missing file.
delete_file(f, path, permanent, trash_ok, remove_ok) ==
    IF ~permanent /\ trash_ok /\ exists(f, path)
    THEN [fs |-> [f EXCEPT ![path] = NoFile], method |-> "trashed"]
    ELSE IF remove_ok /\ exists(f, path)
    THEN [fs |-> [f EXCEPT ![path] = NoFile], method |-> "deleted"]
    ELSE [fs |-> f, method |-> "raised"]

\* opts["delete_after_policy"] and the cleanup policy: None, "all" or a set
\* of extensions
NoPolicy == [kind |-> "none", exts |-> {}]

AllPolicy == [kind |-> "all", exts |-> {}]

SetPolicy(exts) == [kind |-> "set", exts |-> exts]

\* truth value of a policy: None and the empty set are falsy
PolicyTruthy(policy) ==
    policy.kind = "all" \/ (policy.kind = "set" /\ policy.exts # {})

\* a policy test that lets every extension through
policy_allows_every_ext(policy, ext) == policy.kind \in {"all", "set"}

\* maybe_delete_source: allowed
policy_allows(policy, ext) ==
    policy.kind = "all" \/ (policy.kind = "set" /\ ext \in policy.exts)

-----------------------------------------------------------------------------
(* Inputs of a conversion run *)

\* task queues: collect_inputs never returns a path twice
Queues ==
    {q \in UNION {[1..n -> Sources] : n \in 1..MaxTasks} :
        \A i, j \in DOMAIN q : i # j => q[i] # q[j]}

\* the delete-after settings of the model: no policy; .mkv only, for real
\* and as a dry run; every type, through the trash and permanently
DeleteSettings ==
    { << NoPolicy, FALSE, FALSE >>,
      << SetPolicy({".mkv"}), FALSE, FALSE >>,
      << SetPolicy({".mkv"}), TRUE, FALSE >>,
      << SetPolicy(INPUT_EXTS), FALSE, FALSE >>,
      << SetPolicy(INPUT_EXTS), FALSE, TRUE >> }

\* App.start: the options of a run, with the default quality settings
OptsSet ==
    { [crf |-> DEFAULT_CRF, preset |-> DEFAULT_PRESET, tune |-> DEFAULT_TUNE,
       lossless |-> FALSE, force |-> force, dry_run |-> ds[2],
       permanent |-> ds[3], delete_after_policy |-> ds[1]] :
         force \in BOOLEAN, ds \in DeleteSettings }

\* What earlier runs left for a source: nothing ("fresh"), a successful
\* conversion ("done"), or one whose source was modified since ("stale").
Histories == {"fresh", "done", "stale"}

HistFile(h) == IF h = "stale" THEN Sig(10, 200) ELSE FreshSig

HistFs(hist) ==
    [p \in Files |->
        IF p \in Sources THEN HistFile(hist[p])
        ELSE IF \E s \in Sources : DestOf[s] = p /\ hist[s] # "fresh"
             THEN FullOut
             ELSE NoFile]

HistDb(hist) ==
    [s \in {x \in Sources : hist[x] # "fresh"} |->
        [dst |-> DestOf[s], success |-> TRUE, sig |-> FreshSig]]

HistStore(hist) ==
    IF HistDb(hist) = EmptyDb THEN NoFile ELSE Dump(HistDb(hist))

InQueue(q, s) == \E i \in DOMAIN q : q[i] = s

Pending(q) == [i \in DOMAIN q |-> "pending"]

NoCleanup ==
    /\ cpc = "idle"
    /\ cargs = None
    /\ cdb = EmptyDb
    /\ ctodo = {}
    /\ ccount = None
    /\ clast = None

NoRun ==
    /\ pc = "idle"
    /\ idx = 0
    /\ success = 0
    /\ skipped = 0
    /\ ok = FALSE
    /\ stop_flag = FALSE
    /\ ui_queue = <<>>
    /\ calls = <<>>
    /\ last = None
    /\ removed_by_run = {}
    /\ run_no = 0
    /\ first_run = <<>>
    /\ touched = FALSE

NoSave ==
    /\ spc = "idle"
    /\ sold = None
    /\ nsaves = 0
    /\ loaded = None

\* The application with a filled listbox and chosen options, before Start.
Init ==
    /\ FFMPEG_BIN = "ffmpeg"
    /\ FFPROBE_BIN = "ffprobe"
    /\ \E q \in Queues, hist \in [Sources -> Histories] :
          /\ \A s \in Sources : ~InQueue(q, s) => hist[s] = "fresh"
          /\ tasks = q
          /\ outcome = Pending(q)
          /\ fs = HistFs(hist)
          /\ made_by \in Makers(fs, HistDb(hist))
          /\ store = HistStore(hist)
    /\ opts \in OptsSet
    /\ tmp = NoFile
    /\ failed_txt = <<>>
    /\ db = EmptyDb
    /\ NoRun
    /\ NoCleanup
    /\ probe = None
    /\ NoSave

-----------------------------------------------------------------------------
(* ConverterWorker.run *)

Progress(i, total) == [kind |-> "progress", i |-> i, total |-> total]

Summary(conv, total, skip) ==
    [kind |-> "summary", converted |-> conv, total |-> total, skipped |-> skip]

Done == [kind |-> "done"]

\* an external run: a probing call of ffprobe(), or one ffmpeg conversion
\* with its command
Call(kind, cmd) == [kind |-> kind, cmd |-> cmd]

ProbeCall == Call("probe", <<>>)

\* how a conversion ended: its exit code and the size of the destination
\* at that moment (-1: no such file)
Ended(rc, f, dst) ==
    [rc |-> rc, size |-> IF exists(f, dst) THEN getsize(f, dst) ELSE -1]

total == Len(tasks)

\* a tool check that finds every tool
tool_available_always(bin) == TRUE

\* `if FFMPEG_BIN:` / `if FFPROBE_BIN:`; an unresolved tool (None) is ""
tool_available(bin) == bin # ""

\* run(), up to the loop: the tool check and load_json
RunStart ==
    /\ pc = "idle"
    /\ run_no' = run_no + 1
    /\ IF ~tool_available(FFMPEG_BIN)
       THEN /\ ui_queue' = Append(ui_queue, Done)
            /\ pc' = "done"
            /\ db' = db
       ELSE /\ db' = load_json(store)
            /\ pc' = "loop"
            /\ ui_queue' = ui_queue
    /\ idx' = 0
    /\ success' = 0
    /\ skipped' = 0
    /\ UNCHANGED << FFMPEG_BIN, FFPROBE_BIN, fs, store, tmp, failed_txt,
                    tasks, opts, ok, stop_flag, calls, outcome,
                    last, removed_by_run, first_run, touched, made_by, probe >>
    /\ UNCHANGED cleanVars
    /\ UNCHANGED saveVars

\* App.stop -> ConverterWorker.stop, while the worker is alive
Stop ==
    /\ pc \notin {"idle", "done", "dead"}
    /\ ~stop_flag
    /\ stop_flag' = TRUE
    /\ UNCHANGED << FFMPEG_BIN, FFPROBE_BIN, fs, store, tmp, failed_txt,
                    tasks, opts, pc, db, idx, success, skipped, ok, ui_queue,
                    calls, outcome, last, removed_by_run,
                    run_no, first_run, touched, made_by, probe >>
    /\ UNCHANGED cleanVars
    /\ UNCHANGED saveVars

\* a loop head that never looks at the stop event
may_start_task_ignoring_stop(flag, i, n) == i < n

\* the head of the for loop: another task is taken when the queue is not
\* exhausted and the stop event is not set
may_start_task(flag, i, n) == i < n /\ ~flag

\* the loop is left (stop requested or queue exhausted): summary and "done"
RunFinish ==
    /\ pc = "loop"
    /\ ~may_start_task(stop_flag, idx, total)
    /\ ui_queue' = ui_queue \o << Summary(success, total, skipped), Done >>
    /\ pc' = "done"
    /\ calls' = <<>>
    /\ UNCHANGED << FFMPEG_BIN, FFPROBE_BIN, fs, store, tmp, failed_txt,
                    tasks, opts, db, idx, success, skipped, ok, stop_flag,
                    outcome, last, removed_by_run, run_no, first_run,
                    touched, made_by, probe >>
    /\ UNCHANGED cleanVars
    /\ UNCHANGED saveVars

\* a skip test that ignores the store
skip_test_never(force, d, src, dst, f) == FALSE

\* the skip test of the loop body
skip_test(force, d, src, dst, f) == ~force /\ already_done(d, src, dst, f)

\* next task, already converted and unchanged: skipped, progress put by the
\* skip branch and again by the finally clause
TaskSkip ==
    /\ pc = "loop"
    /\ may_start_task(stop_flag, idx, total)
    /\ IsMapping(db)
    /\ LET src == tasks[idx + 1]
       IN  /\ skip_test(opts.force, db, src, DestOf[src], fs)
           /\ idx' = idx + 1
           /\ skipped' = skipped + 1
           /\ outcome' = [outcome EXCEPT ![idx + 1] = "skipped"]
           /\ ui_queue' = ui_queue \o << Progress(idx + 1, total),
                                         Progress(idx + 1, total) >>
           /\ calls' = <<>>
    /\ UNCHANGED << FFMPEG_BIN, FFPROBE_BIN, fs, store, tmp, failed_txt,
                    tasks, opts, pc, db, success, ok, stop_flag,
                    last, removed_by_run, run_no, first_run, touched, made_by,
                    probe >>
    /\ UNCHANGED cleanVars
    /\ UNCHANGED saveVars

\* next task, to be processed: dispatch on the extension.  When what
\* load_json returned is not a dict, db.get raises inside already_done, and
\* in the except branch append_failed is followed by mark_progress, whose
\* item assignment raises again: after the finally clause the exception
\* leaves run().
TaskDispatch ==
    /\ pc = "loop"
    /\ may_start_task(stop_flag, idx, total)
    /\ LET src == tasks[idx + 1]
       IN  IF ~IsMapping(db) /\ ~opts.force
           THEN /\ idx' = idx + 1
                /\ failed_txt' = Append(failed_txt, src)
                /\ outcome' = [outcome EXCEPT ![idx + 1] = "failed"]
                /\ ui_queue' = Append(ui_queue, Progress(idx + 1, total))
                /\ pc' = "dead"
                /\ calls' = <<>>
           ELSE /\ ~skip_test(opts.force, db, src, DestOf[src], fs)
                /\ idx' = idx + 1
                /\ pc' = IF ExtTable[src] = ".mkv" THEN "mkv" ELSE "transcode"
                /\ calls' = <<>>
                /\ UNCHANGED << failed_txt, ui_queue, outcome >>
    /\ UNCHANGED << FFMPEG_BIN, FFPROBE_BIN, fs, store, tmp,
                    tasks, opts, db, success, skipped, ok, stop_flag,
                    last, removed_by_run,
                    run_no, first_run, touched, made_by, probe >>
    /\ UNCHANGED cleanVars
    /\ UNCHANGED saveVars

\* How a call of save_json ends: it returns ("ok"), open(tmp, "w")
\* raises, a write of json.dump raises after the records kept were
\* written (disk full), or os.replace raises.  json.dump writes the records
\* in the dict's insertion order, which the mapping of the model does not
\* keep: the records written before the cut are any part of them.
SaveEnds(data) ==
    [kind : {"ok", "open", "replace"}, kept : {{}}]
       \cup [kind : {"write"}, kept : SUBSET DOMAIN data]

\* a save that writes the temporary file and never renames it
save_json_without_replace(st, t, data, how) ==
    [store |-> st, tmp |-> Dump(data), raised |-> how.kind # "ok"]

\* save_json(PROGRESS_DB_FILE, data), st and t being the store and the
\* temporary file before the call.  When it returns the temporary file
\* was renamed over the store.  When open raises both files are as they
\* were; when a write raises the temporary file holds the cut text; when
\* os.replace raises it holds the complete text; the store is as it was.
save_json(st, t, data, how) ==
    IF how.kind = "ok"
    THEN [store |-> Dump(data), tmp |-> NoFile, raised |-> FALSE]
    ELSE IF how.kind = "open"
    THEN [store |-> st, tmp |-> t, raised |-> TRUE]
    ELSE IF how.kind = "write"
    THEN [store |-> st,
          tmp |-> Content([k \in how.kept |-> data[k]], FALSE),
          raised |-> TRUE]
    ELSE [store |-> st, tmp |-> Dump(data), raised |-> TRUE]

\* The "except Exception" branch and the finally clause for the task in
\* hand: append_failed, mark_progress(False), save_json, progress.  d, f,
\* st and t are the mapping, the file system, the store and the temporary
\* file when the exception was raised; oc is the task's classification.  An exception raised by
\* this save_json, or by mark_progress when d is not a dict, leaves run():
\* the thread dies.
ExceptBranch(d, f, st, t, oc) ==
    \E how \in SaveEnds(IF IsMapping(d)
                        THEN mark_progress(d, tasks[idx], DestOf[tasks[idx]],
                                           FALSE, f)
                        ELSE EmptyDb) :
        LET src == tasks[idx]
            d2  == mark_progress(d, src, DestOf[src], FALSE, f)
            sv  == save_json(st, t, d2, how)
        IN  /\ failed_txt' = Append(failed_txt, src)
            /\ db' = IF IsMapping(d) THEN d2 ELSE d
            /\ store' = IF IsMapping(d) THEN sv.store ELSE st
            /\ tmp' = IF IsMapping(d) THEN sv.tmp ELSE t
            /\ fs' = f
            /\ pc' = IF ~IsMapping(d) \/ sv.raised THEN "dead" ELSE "loop"
            /\ outcome' = [outcome EXCEPT ![idx] = oc]
            /\ ui_queue' = Append(ui_queue, Progress(idx, total))
            /\ ok' = FALSE
            /\ last' = None

\* what ffprobe prints for a source, or its failure
ProbeJsons ==
    { ProbeRaised,
      Probed(<< Stream("video", "h264"), Stream("audio", "aac") >>),
      Probed(<< Stream("video", "vp9"), Stream("audio", "Opus") >>) }

\* what the "Audio:" lines of `ffmpeg -i` yield, or its failure; they are
\* read only when ffprobe is missing or failed
ProbeStderrs(json) ==
    IF FFPROBE_BIN = "" \/ json.raised
    THEN { ProbeRaised, Probed(<< Stream("audio", "vorbis") >>) }
    ELSE { Probed(<<>>) }

\* process_mkv up to the wait for the probing process: ffprobe() starts
\* ffprobe, or `ffmpeg -i` when ffprobe is missing or failed, and blocks in
\* subprocess.run until it ends
ProcessMkvProbe ==
    /\ pc = "mkv"
    /\ calls = <<>>
    /\ calls' = Append(calls, ProbeCall)
    /\ UNCHANGED << fs, store, tmp, failed_txt, db, ui_queue, outcome, pc, ok,
                    last, made_by >>
    /\ UNCHANGED << FFMPEG_BIN, FFPROBE_BIN, tasks, opts, idx, success,
                    skipped, stop_flag, removed_by_run, run_no, first_run,
                    touched, probe >>
    /\ UNCHANGED cleanVars
    /\ UNCHANGED saveVars

\* process_mkv, first attempt, from the return of the probe up to the wait
\* for ffmpeg: the streams are read, the primary remux command is built,
\* the process is started and runs
ProcessMkvPrimary ==
    /\ pc = "mkv"
    /\ calls = << ProbeCall >>
    /\ \E json \in ProbeJsons, out \in Launches :
       \E stderr_audio \in ProbeStderrs(json) :
        LET src == tasks[idx]
            dst == DestOf[src]
            transcode_audio ==
                should_transcode_audio_for_mkv(
                    ffprobe("audio", json, stderr_audio))
            cmd == build_ffmpeg_cmd_remux_mkv(src, dst, transcode_audio, FALSE)
        IN  /\ made_by' = MadeBy(made_by, dst, src, out)
            /\ IF out = "raised"
               THEN /\ UNCHANGED calls
                    /\ ExceptBranch(db, fs, store, tmp, "failed")
               ELSE /\ calls' = Append(calls, Call("convert", cmd))
                    /\ fs' = RunEffect(fs, dst, out)
                    /\ UNCHANGED << store, tmp, failed_txt, db, ui_queue,
                                    outcome, pc, ok, last >>
    /\ UNCHANGED << FFMPEG_BIN, FFPROBE_BIN, tasks, opts, idx, success,
                    skipped, stop_flag, removed_by_run, run_no, first_run,
                    touched, probe >>
    /\ UNCHANGED cleanVars
    /\ UNCHANGED saveVars

\* process_mkv, first attempt, from the return of proc.wait(): the success
\* check on the exit code and the destination
ProcessMkvPrimaryDone ==
    /\ pc = "mkv"
    /\ Len(calls) = 2
    /\ \E rc \in ExitCodes :
        LET src == tasks[idx]
            dst == DestOf[src]
        IN  /\ last' = Ended(rc, fs, dst)
            /\ ok' = conversion_ok(rc, fs, dst)
            /\ failed_txt' = failed_txt
            /\ pc' = IF conversion_ok(rc, fs, dst)
                   THEN "record" ELSE "mkv_fallback"
    /\ UNCHANGED << fs, store, tmp, db, ui_queue, outcome, calls, made_by >>
    /\ UNCHANGED << FFMPEG_BIN, FFPROBE_BIN, tasks, opts, idx, success,
                    skipped, stop_flag, removed_by_run, run_no, first_run,
                    touched, probe >>
    /\ UNCHANGED cleanVars
    /\ UNCHANGED saveVars

\* process_mkv, second attempt, up to the wait for ffmpeg: fallback command
\* (AAC forced, no subtitles), the process is started and runs
ProcessMkvFallback ==
    /\ pc = "mkv_fallback"
    /\ Len(calls) = 2
    /\ \E out \in Launches :
        LET src == tasks[idx]
            dst == DestOf[src]
            cmd2 == build_ffmpeg_cmd_remux_mkv(src, dst, TRUE, FALSE)
        IN  /\ made_by' = MadeBy(made_by, dst, src, out)
            /\ IF out = "raised"
               THEN /\ UNCHANGED calls
                    /\ ExceptBranch(db, fs, store, tmp, "failed")
               ELSE /\ calls' = Append(calls, Call("convert", cmd2))
                    /\ fs' = RunEffect(fs, dst, out)
                    /\ UNCHANGED << store, tmp, failed_txt, db, ui_queue,
                                    outcome, pc, ok, last >>
    /\ UNCHANGED << FFMPEG_BIN, FFPROBE_BIN, tasks, opts, idx, success,
                    skipped, stop_flag, removed_by_run, run_no, first_run,
                    touched, probe >>
    /\ UNCHANGED cleanVars
    /\ UNCHANGED saveVars

\* process_mkv, second attempt, from the return of proc.wait(): the success
\* check; append_failed when it fails
ProcessMkvFallbackDone ==
    /\ pc = "mkv_fallback"
    /\ Len(calls) = 3
    /\ \E rc \in ExitCodes :
        LET src == tasks[idx]
            dst == DestOf[src]
        IN  /\ last' = Ended(rc, fs, dst)
            /\ ok' = conversion_ok(rc, fs, dst)
            /\ failed_txt' = IF conversion_ok(rc, fs, dst)
                             THEN failed_txt
                             ELSE Append(failed_txt, src)
            /\ pc' = "record"
    /\ UNCHANGED << fs, store, tmp, db, ui_queue, outcome, calls, made_by >>
    /\ UNCHANGED << FFMPEG_BIN, FFPROBE_BIN, tasks, opts, idx, success,
                    skipped, stop_flag, removed_by_run, run_no, first_run,
                    touched, probe >>
    /\ UNCHANGED cleanVars
    /\ UNCHANGED saveVars

\* process_transcode up to the wait for ffmpeg: one transcode command, the
\* process is started and runs
ProcessTranscode ==
    /\ pc = "transcode"
    /\ calls = <<>>
    /\ \E out \in Launches :
        LET src == tasks[idx]
            dst == DestOf[src]
            cmd == build_ffmpeg_cmd_transcode(src, dst, opts.crf, opts.preset,
                                              opts.tune, opts.lossless)
        IN  /\ made_by' = MadeBy(made_by, dst, src, out)
            /\ IF out = "raised"
               THEN /\ UNCHANGED calls
                    /\ ExceptBranch(db, fs, store, tmp, "failed")
               ELSE /\ calls' = Append(calls, Call("convert", cmd))
                    /\ fs' = RunEffect(fs, dst, out)
                    /\ UNCHANGED << store, tmp, failed_txt, db, ui_queue,
                                    outcome, pc, ok, last >>
    /\ UNCHANGED << FFMPEG_BIN, FFPROBE_BIN, tasks, opts, idx, success,
                    skipped, stop_flag, removed_by_run, run_no, first_run,
                    touched, probe >>
    /\ UNCHANGED cleanVars
    /\ UNCHANGED saveVars

\* process_transcode from the return of proc.wait(): the success check, no
\* fallback; append_failed when it fails
ProcessTranscodeDone ==
    /\ pc = "transcode"
    /\ calls # <<>>
    /\ \E rc \in ExitCodes :
        LET src == tasks[idx]
            dst == DestOf[src]
        IN  /\ last' = Ended(rc, fs, dst)
            /\ ok' = conversion_ok(rc, fs, dst)
            /\ failed_txt' = IF conversion_ok(rc, fs, dst)
                             THEN failed_txt
                             ELSE Append(failed_txt, src)
            /\ pc' = "record"
    /\ UNCHANGED << fs, store, tmp, db, ui_queue, outcome, calls, made_by >>
    /\ UNCHANGED << FFMPEG_BIN, FFPROBE_BIN, tasks, opts, idx, success,
                    skipped, stop_flag, removed_by_run, run_no, first_run,
                    touched, probe >>
    /\ UNCHANGED cleanVars
    /\ UNCHANGED saveVars

\* maybe_delete_source is called and gets as far as delete_file
delete_after(o, succeeded, ext) ==
    /\ succeeded
    /\ PolicyTruthy(o.delete_after_policy)
    /\ policy_allows(o.delete_after_policy, ext)
    /\ ~o.dry_run

\* whether send2trash and os.remove work matters only when the
\* delete-after step gets as far as delete_file
DeleteFaults(succeeded) ==
    IF delete_after(opts, succeeded, ExtTable[tasks[idx]])
    THEN BOOLEAN ELSE {TRUE}

\* the rest of the loop body: mark_progress, save_json, the tally, the
\* optional delete-after, and the finally clause.  mark_progress raises
\* when db is not a dict.
TaskRecord ==
    /\ pc = "record"
    /\ \E how \in SaveEnds(IF IsMapping(db)
                           THEN mark_progress(db, tasks[idx],
                                              DestOf[tasks[idx]], ok, fs)
                           ELSE EmptyDb),
          trash_ok \in DeleteFaults(ok), remove_ok \in DeleteFaults(ok) :
        LET src == tasks[idx]
            dst == DestOf[src]
            d1  == mark_progress(db, src, dst, ok, fs)
            sv  == save_json(store, tmp, d1, how)
            del == delete_file(fs, src, opts.permanent, trash_ok, remove_ok)
            deleting == delete_after(opts, ok, ExtTable[src])
        IN  IF ~IsMapping(db)
            THEN /\ ExceptBranch(db, fs, store, tmp, "failed")
                 /\ UNCHANGED << success, removed_by_run >>
            ELSE IF sv.raised
            THEN /\ ExceptBranch(d1, fs, store, sv.tmp, "failed")
                 /\ UNCHANGED << success, removed_by_run >>
            ELSE IF deleting /\ del.method = "raised"
            THEN /\ success' = success + 1
                 /\ ExceptBranch(d1, fs, sv.store, sv.tmp, "converted")
                 /\ UNCHANGED removed_by_run
            ELSE /\ db' = d1
                 /\ store' = sv.store
                 /\ tmp' = sv.tmp
                 /\ success' = IF ok THEN success + 1 ELSE success
                 /\ outcome' = [outcome EXCEPT
                                  ![idx] = IF ok THEN "converted" ELSE "failed"]
                 /\ fs' = IF deleting THEN del.fs ELSE fs
                 /\ removed_by_run' = IF deleting
                                      THEN removed_by_run \cup {src}
                                      ELSE removed_by_run
                 /\ ui_queue' = Append(ui_queue, Progress(idx, total))
                 /\ pc' = "loop"
                 /\ ok' = FALSE
                 /\ last' = None
                 /\ UNCHANGED failed_txt
    /\ calls' = <<>>
    /\ UNCHANGED << FFMPEG_BIN, FFPROBE_BIN, tasks, opts, idx, skipped,
                    stop_flag, run_no, first_run, touched, made_by, probe >>
    /\ UNCHANGED cleanVars
    /\ UNCHANGED saveVars

Next ==
    \/ RunStart
    \/ Stop
    \/ RunFinish
    \/ TaskSkip
    \/ TaskDispatch
    \/ ProcessMkvProbe
    \/ ProcessMkvPrimary
    \/ ProcessMkvPrimaryDone
    \/ ProcessMkvFallback
    \/ ProcessMkvFallbackDone
    \/ ProcessTranscode
    \/ ProcessTranscodeDone
    \/ TaskRecord

Spec == Init /\ [][Next]_vars

\* The application before Start, with each of the two tools resolved or
\* not (resolve_media_bins), default options, and sources that are new or
\* already converted.
InitTools ==
    /\ FFMPEG_BIN \in {"", "ffmpeg"}
    /\ FFPROBE_BIN \in {"", "ffprobe"}
    /\ \E q \in Queues, hist \in [Sources -> {"fresh", "done"}] :
          /\ \A s \in Sources : ~InQueue(q, s) => hist[s] = "fresh"
          /\ tasks = q
          /\ outcome = Pending(q)
          /\ fs = HistFs(hist)
          /\ made_by \in Makers(fs, HistDb(hist))
          /\ store = HistStore(hist)
    /\ opts = [crf |-> DEFAULT_CRF, preset |-> DEFAULT_PRESET,
               tune |-> DEFAULT_TUNE, lossless |-> FALSE, force |-> FALSE,
               dry_run |-> FALSE, permanent |-> FALSE,
               delete_after_policy |-> NoPolicy]
    /\ tmp = NoFile
    /\ failed_txt = <<>>
    /\ db = EmptyDb
    /\ NoRun
    /\ NoCleanup
    /\ probe = None
    /\ NoSave

NextTools == Next

SpecTools == InitTools /\ [][NextTools]_vars

-----------------------------------------------------------------------------
(* cleanup_from_progress *)

\* str.split("/")
RECURSIVE SplitPath(_)
SplitPath(p) ==
    IF RFind(p, "/") = 0 THEN << p >>
    ELSE Append(SplitPath(SubSeq(p, 1, RFind(p, "/") - 1)),
                SubSeq(p, RFind(p, "/") + 1, Len(p)))

\* posixpath.normpath, the loop over the components: "" and "." are
\* dropped, ".." removes the component before it (at the root it is dropped)
RECURSIVE NormComps(_, _)
NormComps(comps, acc) ==
    IF comps = <<>> THEN acc
    ELSE LET c == Head(comps)
         IN  IF c = "" \/ c = "." THEN NormComps(Tail(comps), acc)
             ELSE IF c = ".."
             THEN NormComps(Tail(comps),
                            IF acc = <<>> THEN acc
                            ELSE SubSeq(acc, 1, Len(acc) - 1))
             ELSE NormComps(Tail(comps), Append(acc, c))

RECURSIVE JoinPath(_)
JoinPath(comps) ==
    IF comps = <<>> THEN ""
    ELSE IF Len(comps) = 1 THEN comps[1]
    ELSE comps[1] \o "/" \o JoinPath(Tail(comps))

\* posixpath.normpath of an absolute path: two leading slashes are kept,
\* three or more become one
normpath(p) ==
    LET lead == IF StartsWith(p, "//") /\ ~StartsWith(p, "///")
                THEN "//" ELSE "/"
    IN  lead \o JoinPath(NormComps(SplitPath(p), <<>>))

\* the paths the cleanup pass of the model normalises, computed once
ScopeRoots == { "/v/", "/w/../w/b.OGV", "/x", "/", "/v/a" }

NormTable == [p \in Sources \cup ScopeRoots |-> normpath(p)]

\* os.path.normcase(os.path.abspath(p)) of an absolute POSIX path
abspath(p) == IF p \in DOMAIN NormTable THEN NormTable[p] ELSE normpath(p)

isdir(path) == path \in Dirs

\* is_within(path, roots) of cleanup_from_progress
is_within(path, roots) ==
    IF roots = <<>> THEN TRUE
    ELSE \E k \in 1..Len(roots) :
            \/ abspath(path) = abspath(roots[k])
            \/ /\ isdir(abspath(roots[k]))
               /\ StartsWith(abspath(path), abspath(roots[k]) \o "/")

\* the policy test of the cleanup loop
cleanup_ext_ok(policy, ext) == policy = AllPolicy \/ ext \in policy.exts

\* rec.get("dst") or dest_path(src)
cleanup_dst(rec, src) ==
    IF "dst" \in DOMAIN rec /\ rec.dst # "" THEN rec.dst ELSE dest_path(src)

\* a cleanup loop body without the test of the converted file
cleanup_verdict_without_dst_test(args, src, rec, f) ==
    IF ~cleanup_ext_ok(args.policy, ExtOf(src)) THEN "skipped_ext"
    ELSE IF args.scope_paths # <<>> /\ ~is_within(src, args.scope_paths)
    THEN "skipped_scope"
    ELSE IF rec.success # TRUE THEN "skipped_not_success"
    ELSE IF ~exists(f, src) THEN "missing_src"
    ELSE IF rec.sig = None \/ rec.sig # file_sig(f, src) THEN "mismatched"
    ELSE IF args.dry_run THEN "dry_run"
    ELSE "delete"

\* a cleanup loop body that does not look at dry_run
cleanup_verdict_ignoring_dry_run(args, src, rec, f) ==
    IF ~cleanup_ext_ok(args.policy, ExtOf(src)) THEN "skipped_ext"
    ELSE IF args.scope_paths # <<>> /\ ~is_within(src, args.scope_paths)
    THEN "skipped_scope"
    ELSE IF rec.success # TRUE THEN "skipped_not_success"
    ELSE IF ~exists(f, cleanup_dst(rec, src)) THEN "missing_dst"
    ELSE IF ~exists(f, src) THEN "missing_src"
    ELSE IF rec.sig = None \/ rec.sig # file_sig(f, src) THEN "mismatched"
    ELSE "delete"

\* the loop body of cleanup_from_progress up to the deletion: which branch
\* the record takes
cleanup_verdict(args, src, rec, f) ==
    IF ~cleanup_ext_ok(args.policy, ExtOf(src)) THEN "skipped_ext"
    ELSE IF args.scope_paths # <<>> /\ ~is_within(src, args.scope_paths)
    THEN "skipped_scope"
    ELSE IF rec.success # TRUE THEN "skipped_not_success"
    ELSE IF ~exists(f, cleanup_dst(rec, src)) THEN "missing_dst"
    ELSE IF ~exists(f, src) THEN "missing_src"
    ELSE IF rec.sig = None \/ rec.sig # file_sig(f, src) THEN "mismatched"
    ELSE IF args.dry_run THEN "dry_run"
    ELSE "delete"

Tallies ==
    { "total_candidates", "removed", "mismatched", "missing_dst",
      "missing_src", "skipped_scope", "skipped_not_success", "skipped_ext" }

ZeroTallies == [t \in Tallies |-> 0]

Bump(c, t) == [c EXCEPT ![t] = c[t] + 1]

\* tallies that count a removal before delete_file is called
Count_removed_before_delete(c, v, removed) ==
    IF v \in {"skipped_ext", "skipped_scope"} THEN Bump(c, v)
    ELSE IF v \in {"skipped_not_success", "missing_dst", "missing_src",
                   "mismatched"}
    THEN Bump(Bump(c, "total_candidates"), v)
    ELSE IF v = "delete"
    THEN Bump(Bump(c, "total_candidates"), "removed")
    ELSE Bump(c, "total_candidates")

\* tallies that count a dry-run record as removed
Count_dry_run_as_removed(c, v, removed) ==
    IF v \in {"skipped_ext", "skipped_scope"} THEN Bump(c, v)
    ELSE IF v \in {"skipped_not_success", "missing_dst", "missing_src",
                   "mismatched"}
    THEN Bump(Bump(c, "total_candidates"), v)
    ELSE IF (v = "delete" /\ removed) \/ v = "dry_run"
    THEN Bump(Bump(c, "total_candidates"), "removed")
    ELSE Bump(c, "total_candidates")

\* the tallies after a record took the branch v (removed: delete_file
\* returned)
Count(c, v, removed) ==
    IF v \in {"skipped_ext", "skipped_scope"} THEN Bump(c, v)
    ELSE IF v \in {"skipped_not_success", "missing_dst", "missing_src",
                   "mismatched"}
    THEN Bump(Bump(c, "total_candidates"), v)
    ELSE IF v = "delete" /\ removed
    THEN Bump(Bump(c, "total_candidates"), "removed")
    ELSE Bump(c, "total_candidates")

\* What a store written by earlier runs holds for a source, with the state
\* of its files: the record may be deleted, or one thing stands in the way.
Profiles == { "eligible", "not_success", "no_dst", "no_src", "mtime_changed",
              "size_changed", "no_sig" }

ProfileRecord(s, pr) ==
    [dst |-> DestOf[s],
     success |-> pr # "not_success",
     sig |-> IF pr = "no_sig" THEN None ELSE FreshSig]

ProfileFile(pr) ==
    IF pr = "no_src" THEN NoFile
    ELSE IF pr = "mtime_changed" THEN Sig(10, 200)
    ELSE IF pr = "size_changed" THEN Sig(20, 100)
    ELSE FreshSig

\* the scopes of the model: no listbox entry, a folder written with a
\* trailing slash, a file written with a detour next to a foreign folder
Scopes == { <<>>, << "/v/" >>, << "/w/../w/b.OGV", "/x" >> }

\* cleanup_from_progress_clicked: policy "all" or a set of extensions;
\* permanent is read only when a deletion is carried out
CleanupArgs ==
    {a \in [policy : {AllPolicy, SetPolicy({".mkv", ".ogv"})},
            scope_paths : Scopes, permanent : BOOLEAN, dry_run : BOOLEAN] :
        a.permanent => ~a.dry_run}

IdleOpts ==
    [crf |-> DEFAULT_CRF, preset |-> DEFAULT_PRESET, tune |-> DEFAULT_TUNE,
     lossless |-> FALSE, force |-> FALSE, dry_run |-> FALSE,
     permanent |-> FALSE, delete_after_policy |-> NoPolicy]

\* The application with a store of up to MaxRecords records, before the
\* cleanup button is pressed.
InitCleanup ==
    /\ FFMPEG_BIN = "ffmpeg"
    /\ FFPROBE_BIN = "ffprobe"
    /\ \E keys \in SUBSET Sources :
          /\ Cardinality(keys) <= MaxRecords
          /\ \E prof \in [keys -> Profiles] :
                /\ \A s, t \in keys :
                      DestOf[s] = DestOf[t]
                         => (prof[s] = "no_dst") = (prof[t] = "no_dst")
                /\ store = IF keys = {} THEN NoFile
                           ELSE Dump([s \in keys |-> ProfileRecord(s, prof[s])])
                /\ fs = [p \in Files |->
                           IF p \in keys THEN ProfileFile(prof[p])
                           ELSE IF p \in Sources THEN FreshSig
                           ELSE IF \E s \in keys :
                                     DestOf[s] = p /\ prof[s] # "no_dst"
                                THEN FullOut
                                ELSE NoFile]
                /\ made_by \in Makers(fs, [s \in keys |->
                                              ProfileRecord(s, prof[s])])
    /\ cargs \in CleanupArgs
    /\ tasks = <<>>
    /\ outcome = <<>>
    /\ opts = IdleOpts
    /\ tmp = NoFile
    /\ failed_txt = <<>>
    /\ db = EmptyDb
    /\ NoRun
    /\ cpc = "idle"
    /\ cdb = EmptyDb
    /\ ctodo = {}
    /\ ccount = None
    /\ clast = None
    /\ probe = None
    /\ NoSave

\* cleanup_from_progress, up to the loop: load_json, return when empty.
\* db.items() raises when what was loaded is truthy and not a dict: the
\* exception leaves cleanup_from_progress.
CleanupStart ==
    /\ cpc = "idle"
    /\ cdb' = load_json(store)
    /\ IF ~DbTruthy(load_json(store))
       THEN /\ cpc' = "done"
            /\ ctodo' = {}
            /\ ccount' = ccount
       ELSE IF ~IsMapping(load_json(store))
       THEN /\ cpc' = "dead"
            /\ ctodo' = {}
            /\ ccount' = ZeroTallies
       ELSE /\ cpc' = "loop"
            /\ ctodo' = DOMAIN load_json(store)
            /\ ccount' = ZeroTallies
    /\ UNCHANGED << FFMPEG_BIN, FFPROBE_BIN, fs, store, tmp, failed_txt,
                    cargs, clast, probe >>
    /\ UNCHANGED runVars
    /\ UNCHANGED << touched, made_by >>
    /\ UNCHANGED saveVars

\* one iteration of the loop over db.items(): the checks, the deletion,
\* and the except branch that swallows what delete_file raises
CleanupRecord ==
    /\ cpc = "loop"
    /\ \E src \in ctodo, trash_ok \in BOOLEAN, remove_ok \in BOOLEAN :
        LET v   == cleanup_verdict(cargs, src, cdb[src], fs)
            del == delete_file(fs, src, cargs.permanent, trash_ok, remove_ok)
            removed == v = "delete" /\ del.method # "raised"
        IN  /\ fs' = IF removed THEN del.fs ELSE fs
            /\ ccount' = Count(ccount, v, removed)
            /\ clast' = [src |-> src,
                         did |-> IF v # "delete" THEN v
                                 ELSE IF removed THEN "removed" ELSE "error"]
            /\ ctodo' = ctodo \ {src}
    /\ UNCHANGED << FFMPEG_BIN, FFPROBE_BIN, store, tmp, failed_txt,
                    cpc, cargs, cdb, probe >>
    /\ UNCHANGED runVars
    /\ UNCHANGED << touched, made_by >>
    /\ UNCHANGED saveVars

\* the loop is over: the summary is logged
CleanupFinish ==
    /\ cpc = "loop"
    /\ ctodo = {}
    /\ cpc' = "done"
    /\ UNCHANGED << FFMPEG_BIN, FFPROBE_BIN, fs, store, tmp, failed_txt,
                    cargs, cdb, ctodo, ccount, clast, probe >>
    /\ UNCHANGED runVars
    /\ UNCHANGED << touched, made_by >>
    /\ UNCHANGED saveVars

NextCleanup ==
    \/ CleanupStart
    \/ CleanupRecord
    \/ CleanupFinish

SpecCleanup == InitCleanup /\ [][NextCleanup]_vars

\* progress.json as something other than save_json left it: text that is
\* not JSON, or JSON whose top-level value is not an object
BadStores ==
    { Content(EmptyDb, FALSE),
      Dump(JsonValue("list", FALSE)),
      Dump(JsonValue("list", TRUE)),
      Dump(JsonValue("null", FALSE)) }

\* The application before Start and before the cleanup button is pressed
\* (a dry run over every type), with sources that are new or already
\* converted and a store that is what the earlier runs wrote, or damaged.
InitBadStore ==
    /\ FFMPEG_BIN = "ffmpeg"
    /\ FFPROBE_BIN = "ffprobe"
    /\ \E q \in Queues, hist \in [Sources -> {"fresh", "done"}] :
          /\ \A s \in Sources : ~InQueue(q, s) => hist[s] = "fresh"
          /\ tasks = q
          /\ outcome = Pending(q)
          /\ fs = HistFs(hist)
          /\ made_by \in Makers(fs, HistDb(hist))
          /\ store \in {HistStore(hist)} \cup BadStores
    /\ opts \in {o \in OptsSet : o.delete_after_policy = NoPolicy}
    /\ cargs = [policy |-> AllPolicy, scope_paths |-> <<>>,
                permanent |-> FALSE, dry_run |-> TRUE]
    /\ tmp = NoFile
    /\ failed_txt = <<>>
    /\ db = EmptyDb
    /\ NoRun
    /\ cpc = "idle"
    /\ cdb = EmptyDb
    /\ ctodo = {}
    /\ ccount = None
    /\ clast = None
    /\ probe = None
    /\ NoSave

\* the worker thread and, on the GUI thread, the cleanup pass
NextBadStore ==
    \/ Next
    \/ NextCleanup

SpecBadStore == InitBadStore /\ [][NextBadStore]_vars

\* The application before Start and before the cleanup button is pressed
\* for a real cleanup of every type through the trash: the queued sources
\* are new or were converted by an earlier run, nothing is deleted after
\* a conversion.
InitOverlap ==
    /\ FFMPEG_BIN = "ffmpeg"
    /\ FFPROBE_BIN = "ffprobe"
    /\ \E q \in Queues, hist \in [Sources -> {"fresh", "done"}] :
          /\ \A s \in Sources : ~InQueue(q, s) => hist[s] = "fresh"
          /\ tasks = q
          /\ outcome = Pending(q)
          /\ fs = HistFs(hist)
          /\ made_by \in Makers(fs, HistDb(hist))
          /\ store = HistStore(hist)
    /\ opts \in {o \in OptsSet : o.delete_after_policy = NoPolicy}
    /\ cargs = [policy |-> AllPolicy, scope_paths |-> <<>>,
                permanent |-> FALSE, dry_run |-> FALSE]
    /\ tmp = NoFile
    /\ failed_txt = <<>>
    /\ db = EmptyDb
    /\ NoRun
    /\ cpc = "idle"
    /\ cdb = EmptyDb
    /\ ctodo = {}
    /\ ccount = None
    /\ clast = None
    /\ probe = None
    /\ NoSave

\* the worker thread and the cleanup thread: the cleanup button stays
\* enabled during a run
NextOverlap ==
    \/ Next
    \/ NextCleanup

SpecOverlap == InitOverlap /\ [][NextOverlap]_vars

-----------------------------------------------------------------------------
(* already_done on its own *)

\* the records a store can hold for a source: success or not, with no
\* signature or any of the signatures of the model
RecordsOf(s) ==
    [dst : {DestOf[s]}, success : BOOLEAN, sig : {None} \cup Sigs]

\* A store with at most one record, the source missing or with any
\* signature, the destination missing or there.
InitAlreadyDone ==
    /\ FFMPEG_BIN = "ffmpeg"
    /\ FFPROBE_BIN = "ffprobe"
    /\ \E s \in Sources :
          /\ db \in {EmptyDb} \cup {Put(EmptyDb, s, r) : r \in RecordsOf(s)}
          /\ \E sf \in {NoFile} \cup Sigs, df \in {NoFile, FullOut} :
                fs = [p \in Files |->
                        IF p = s THEN sf
                        ELSE IF p = DestOf[s] THEN df
                        ELSE IF p \in Sources THEN FreshSig
                        ELSE NoFile]
    /\ store = IF db = EmptyDb THEN NoFile ELSE Dump(db)
    /\ tasks = <<>>
    /\ outcome = <<>>
    /\ opts = IdleOpts
    /\ tmp = NoFile
    /\ failed_txt = <<>>
    /\ NoRun
    /\ made_by = Unmade
    /\ NoCleanup
    /\ probe = None
    /\ NoSave

\* already_done(db, src, dest_path(src)) is evaluated for a source
ApplyAlreadyDone ==
    /\ probe = None
    /\ \E src \in Sources :
          probe' = [src |-> src,
                    result |-> already_done(db, src, dest_path(src), fs)]
    /\ UNCHANGED << FFMPEG_BIN, FFPROBE_BIN, fs, store, tmp, failed_txt,
                    touched, made_by >>
    /\ UNCHANGED runVars
    /\ UNCHANGED cleanVars
    /\ UNCHANGED saveVars

NextAlreadyDone == ApplyAlreadyDone

SpecAlreadyDone == InitAlreadyDone /\ [][NextAlreadyDone]_vars

-----------------------------------------------------------------------------
(* should_transcode_audio_for_mkv on its own *)

MaxStreams == 2

\* codec names as the tools report them; "" is a stream without a name
CodecNames == {"aac", "AAC", "Mp3", "Opus", ""}

StreamLists(types, names, n) ==
    UNION {[1..k -> {Stream(t, c) : t \in types, c \in names}] : k \in 0..n}

\* what the ffprobe run can yield for a source
JsonOutcomes ==
    {ProbeRaised}
       \cup {Probed(l) : l \in StreamLists({"audio", "video"}, CodecNames,
                                            MaxStreams)}

\* what the "Audio:" lines of `ffmpeg -i` can yield: the pattern matches
\* non-empty names only
StderrOutcomes ==
    {ProbeRaised}
       \cup {Probed(l) : l \in StreamLists({"audio"}, {"aac", "MP3", "Vorbis"}, 1)}

\* no queue, no media files, no store: nothing but the tools
NoMedia ==
    /\ fs = [p \in Files |-> NoFile]
    /\ store = NoFile
    /\ tmp = NoFile
    /\ failed_txt = <<>>
    /\ tasks = <<>>
    /\ outcome = <<>>
    /\ db = EmptyDb
    /\ NoRun
    /\ made_by = Unmade
    /\ NoCleanup
    /\ NoSave

\* a source about to be probed, with either outcome of either strategy
InitProbe ==
    /\ FFMPEG_BIN = "ffmpeg"
    /\ FFPROBE_BIN \in {"", "ffprobe"}
    /\ opts = [crf |-> DEFAULT_CRF, preset |-> DEFAULT_PRESET,
               tune |-> DEFAULT_TUNE, lossless |-> FALSE, force |-> FALSE,
               dry_run |-> FALSE, permanent |-> FALSE,
               delete_after_policy |-> NoPolicy]
    /\ NoMedia
    /\ probe \in [json : JsonOutcomes, stderr_audio : StderrOutcomes,
                   applied : {FALSE}, result : {FALSE}]

\* should_transcode_audio_for_mkv(src) is evaluated
ApplyShouldTranscode ==
    /\ ~probe.applied
    /\ probe' = [probe EXCEPT
                   !.applied = TRUE,
                   !.result = should_transcode_audio_for_mkv(
                                 ffprobe("audio", probe.json,
                                         probe.stderr_audio))]
    /\ UNCHANGED << FFMPEG_BIN, FFPROBE_BIN, fs, store, tmp, failed_txt,
                    touched, made_by >>
    /\ UNCHANGED runVars
    /\ UNCHANGED cleanVars
    /\ UNCHANGED saveVars

NextProbe == ApplyShouldTranscode

SpecProbe == InitProbe /\ [][NextProbe]_vars

-----------------------------------------------------------------------------
(* The command builders on their own *)

\* quality settings as App.start hands them over: crf and preset are never
\* empty (an empty field falls back to the default), tune may be
CrfValues == {DEFAULT_CRF, "23", "0"}

PresetValues == {DEFAULT_PRESET, "veryslow"}

TuneValues == {DEFAULT_TUNE, "film"}

\* a call of build_ffmpeg_cmd_remux_mkv as process_mkv or a caller keeping
\* text subtitles makes it
RemuxCalls ==
    [call : {"remux"}, src : Sources, dst : Dests,
     transcode_audio : BOOLEAN, keep_text_subs : BOOLEAN,
     crf : {DEFAULT_CRF}, preset : {DEFAULT_PRESET}, tune : {DEFAULT_TUNE},
     lossless : {FALSE}, applied : {FALSE}, result : {<<>>}]

\* a call of build_ffmpeg_cmd_transcode as process_transcode makes it
TranscodeCalls ==
    [call : {"transcode"}, src : Sources, dst : Dests,
     transcode_audio : {FALSE}, keep_text_subs : {FALSE},
     crf : CrfValues, preset : PresetValues, tune : TuneValues,
     lossless : BOOLEAN, applied : {FALSE}, result : {<<>>}]

InitCommands ==
    /\ FFMPEG_BIN = "ffmpeg"
    /\ FFPROBE_BIN = "ffprobe"
    /\ opts = [crf |-> DEFAULT_CRF, preset |-> DEFAULT_PRESET,
               tune |-> DEFAULT_TUNE, lossless |-> FALSE, force |-> FALSE,
               dry_run |-> FALSE, permanent |-> FALSE,
               delete_after_policy |-> NoPolicy]
    /\ NoMedia
    /\ probe \in RemuxCalls \cup TranscodeCalls

ApplyRemux ==
    /\ probe.call = "remux"
    /\ ~probe.applied
    /\ probe' = [probe EXCEPT
                   !.applied = TRUE,
                   !.result = build_ffmpeg_cmd_remux_mkv(
                                 probe.src, probe.dst, probe.transcode_audio,
                                 probe.keep_text_subs)]
    /\ UNCHANGED << FFMPEG_BIN, FFPROBE_BIN, fs, store, tmp, failed_txt,
                    touched, made_by >>
    /\ UNCHANGED runVars
    /\ UNCHANGED cleanVars
    /\ UNCHANGED saveVars

ApplyTranscode ==
    /\ probe.call = "transcode"
    /\ ~probe.applied
    /\ probe' = [probe EXCEPT
                   !.applied = TRUE,
                   !.result = build_ffmpeg_cmd_transcode(
                                 probe.src, probe.dst, probe.crf, probe.preset,
                                 probe.tune, probe.lossless)]
    /\ UNCHANGED << FFMPEG_BIN, FFPROBE_BIN, fs, store, tmp, failed_txt,
                    touched, made_by >>
    /\ UNCHANGED runVars
    /\ UNCHANGED cleanVars
    /\ UNCHANGED saveVars

NextCommands ==
    \/ ApplyRemux
    \/ ApplyTranscode

SpecCommands == InitCommands /\ [][NextCommands]_vars

-----------------------------------------------------------------------------
(* collect_inputs on its own *)

MaxPaths == 2

\* the directories of the model; one of them is inside another and has a
\* name that ends like a video file
TreeDirs == {"/v", "/w", "/v/s.mkv"}

\* the plain files a directory can hold, by name, as the OS lists them
DirFiles ==
    [d \in TreeDirs |->
        IF d = "/v" THEN << "a.mkv", "a.webm", "notes.txt" >>
        ELSE IF d = "/v/s.mkv" THEN << "c.MKV", "d.mp4" >>
        ELSE << "b.OGV" >>]

\* its subdirectories, by name
DirSubdirs == [d \in TreeDirs |-> IF d = "/v" THEN << "s.mkv" >> ELSE <<>>]

\* os.path.join(root, n) for a relative n
join(root, n) ==
    IF root # "" /\ CharAt(root, Len(root)) = "/"
    THEN root \o n
    ELSE root \o "/" \o n

TreeFiles ==
    UNION {{join(d, DirFiles[d][i]) : i \in 1..Len(DirFiles[d])} : d \in TreeDirs}

\* what the user can add to the listbox: directories, files, a path that
\* is neither
GivenPaths ==
    TreeDirs \cup {"/v/a.mkv", "/v/notes.txt", "/v/s.mkv/c.MKV", "/x.mkv"}

\* os.path.splitext(n)[1].lower() of every name and path of the model
NameExt ==
    [n \in UNION {{DirFiles[d][i] : i \in 1..Len(DirFiles[d])} : d \in TreeDirs}
        |-> lower(splitext(n)[2])]

PathExt == [p \in GivenPaths |-> lower(splitext(p)[2])]

isfile(f, path) == exists(f, path)

Reverse(seq) == [i \in 1..Len(seq) |-> seq[Len(seq) + 1 - i]]

\* the order in which a directory is listed is up to the OS
Listed(seq, order) == IF order = "reversed" THEN Reverse(seq) ELSE seq

RECURSIVE walk(_, _, _), walk_each(_, _, _, _)

\* the inner loops of collect_inputs over os.walk(top): the matching files
\* of top, then those of each subdirectory in turn
walk(f, top, order) ==
    LET here == SelectSeq(Listed(DirFiles[top], order),
                          LAMBDA n : /\ isfile(f, join(top, n))
                                     /\ NameExt[n] \in INPUT_EXTS)
    IN  [i \in 1..Len(here) |-> join(top, here[i])]
           \o walk_each(f, top, Listed(DirSubdirs[top], order), order)

walk_each(f, top, subs, order) ==
    IF subs = <<>> THEN <<>>
    ELSE walk(f, join(top, Head(subs)), order)
            \o walk_each(f, top, Tail(subs), order)

RECURSIVE expand(_, _, _)

\* the first loop of collect_inputs: the list `found`
expand(f, paths, order) ==
    IF paths = <<>> THEN <<>>
    ELSE LET p == Head(paths)
         IN  (IF isfile(f, p) /\ PathExt[p] \in INPUT_EXTS THEN << p >>
              ELSE IF p \in TreeDirs THEN walk(f, p, order)
              ELSE <<>>)
                \o expand(f, Tail(paths), order)

RECURSIVE dedupe(_, _)

\* the second loop: de-dupe preserving order
dedupe(found, seen) ==
    IF found = <<>> THEN <<>>
    ELSE IF Head(found) \in seen THEN dedupe(Tail(found), seen)
    ELSE << Head(found) >> \o dedupe(Tail(found), seen \cup {Head(found)})

\* collecting without the second loop
collect_inputs_without_dedupe(f, paths, order) == expand(f, paths, order)

collect_inputs(f, paths, order) == dedupe(expand(f, paths, order), {})

PathLists == UNION {[1..n -> GivenPaths] : n \in 0..MaxPaths}

\* any of the files there or not, any list of paths, either listing order
InitCollect ==
    /\ FFMPEG_BIN = "ffmpeg"
    /\ FFPROBE_BIN = "ffprobe"
    /\ opts = [crf |-> DEFAULT_CRF, preset |-> DEFAULT_PRESET,
               tune |-> DEFAULT_TUNE, lossless |-> FALSE, force |-> FALSE,
               dry_run |-> FALSE, permanent |-> FALSE,
               delete_after_policy |-> NoPolicy]
    /\ fs \in [TreeFiles -> {FreshSig, NoFile}]
    /\ store = NoFile
    /\ tmp = NoFile
    /\ failed_txt = <<>>
    /\ tasks = <<>>
    /\ outcome = <<>>
    /\ db = EmptyDb
    /\ NoRun
    /\ made_by = Unmade
    /\ NoCleanup
    /\ NoSave
    /\ probe \in [paths : PathLists, order : {"listed", "reversed"},
                   applied : {FALSE}, result : {<<>>}]

ApplyCollect ==
    /\ ~probe.applied
    /\ probe' = [probe EXCEPT
                   !.applied = TRUE,
                   !.result = collect_inputs(fs, probe.paths, probe.order)]
    /\ UNCHANGED << FFMPEG_BIN, FFPROBE_BIN, fs, store, tmp, failed_txt,
                    touched, made_by >>
    /\ UNCHANGED runVars
    /\ UNCHANGED cleanVars
    /\ UNCHANGED saveVars

NextCollect == ApplyCollect

SpecCollect == InitCollect /\ [][NextCollect]_vars

-----------------------------------------------------------------------------
(* delete_file on its own *)

\* a path to delete, there or already gone, with send2trash usable or not
\* and os.remove permitted or not
InitDelete ==
    /\ FFMPEG_BIN = "ffmpeg"
    /\ FFPROBE_BIN = "ffprobe"
    /\ opts = [crf |-> DEFAULT_CRF, preset |-> DEFAULT_PRESET,
               tune |-> DEFAULT_TUNE, lossless |-> FALSE, force |-> FALSE,
               dry_run |-> FALSE, permanent |-> FALSE,
               delete_after_policy |-> NoPolicy]
    /\ \E there \in SUBSET Sources :
          fs = [p \in Files |-> IF p \in there THEN FreshSig ELSE NoFile]
    /\ store = NoFile
    /\ tmp = NoFile
    /\ failed_txt = <<>>
    /\ tasks = <<>>
    /\ outcome = <<>>
    /\ db = EmptyDb
    /\ NoRun
    /\ made_by = Unmade
    /\ NoCleanup
    /\ NoSave
    /\ probe \in [path : Sources, permanent : BOOLEAN, trash_ok : BOOLEAN,
                   remove_ok : BOOLEAN, applied : {FALSE}, method : {""}]

\* delete_file(path, permanent) is called; method "raised" stands for the
\* exception of os.remove
ApplyDelete ==
    /\ ~probe.applied
    /\ LET del == delete_file(fs, probe.path, probe.permanent,
                              probe.trash_ok, probe.remove_ok)
       IN  /\ fs' = del.fs
           /\ probe' = [probe EXCEPT !.applied = TRUE, !.method = del.method]
    /\ UNCHANGED << FFMPEG_BIN, FFPROBE_BIN, store, tmp, failed_txt,
                    touched, made_by >>
    /\ UNCHANGED runVars
    /\ UNCHANGED cleanVars
    /\ UNCHANGED saveVars

NextDelete == ApplyDelete

SpecDelete == InitDelete /\ [][NextDelete]_vars

-----------------------------------------------------------------------------
(* is_within on its own *)

MaxRoots == 2

\* the listbox of scope paths: up to MaxRoots entries
RootLists ==
    UNION { [1..n -> ScopeRoots] : n \in 0..MaxRoots }

\* A key of the store and a scope list, before the scope test of the
\* cleanup loop is applied to them.
InitScope ==
    /\ FFMPEG_BIN = "ffmpeg"
    /\ FFPROBE_BIN = "ffprobe"
    /\ probe \in [path : Sources, roots : RootLists,
                  applied : {FALSE}, result : {FALSE}]
    /\ fs = [p \in Files |-> IF p \in Sources THEN FreshSig ELSE NoFile]
    /\ store = NoFile
    /\ tmp = NoFile
    /\ failed_txt = <<>>
    /\ tasks = <<>>
    /\ outcome = <<>>
    /\ opts = IdleOpts
    /\ db = EmptyDb
    /\ NoRun
    /\ made_by = Unmade
    /\ NoCleanup
    /\ NoSave

\* the scope test of the cleanup loop:
\* not (scope_paths and not is_within(src, scope_paths))
ApplyScope ==
    /\ ~probe.applied
    /\ probe' = [probe EXCEPT
                    !.applied = TRUE,
                    !.result = ~(probe.roots # <<>>
                                 /\ ~is_within(probe.path, probe.roots))]
    /\ UNCHANGED << FFMPEG_BIN, FFPROBE_BIN, fs, store, tmp, failed_txt,
                    touched, made_by >>
    /\ UNCHANGED runVars
    /\ UNCHANGED cleanVars
    /\ UNCHANGED saveVars

NextScope == ApplyScope

SpecScope == InitScope /\ [][NextScope]_vars

-----------------------------------------------------------------------------
(* save_json, statement by statement, with a crash and a concurrent reader *)

\* most save_json calls followed in one behaviour
MaxSaves == 2

\* the two files save_json touches
SaveFiles(st, t) == [store |-> st, tmp |-> t]

\* a json.dump that writes into the canonical file itself
write_in_place(files, content) == [files EXCEPT !.store = content]

\* open(tmp, "w") and the writes of json.dump go to the temporary file
write_tmp(files, content) == [files EXCEPT !.tmp = content]

\* os.replace(tmp, path): one atomic rename
replace(files) == [store |-> files.tmp, tmp |-> NoFile]

\* the mappings handed to save_json
SaveData ==
    {EmptyDb}
    \cup { Put(EmptyDb, "/v/a.mkv", r) : r \in
             [dst : {"/v/a.mp4"}, success : BOOLEAN, sig : {FreshSig}] }
    \cup { Put(Put(EmptyDb, "/v/a.mkv", r), "/w/b.OGV", q) :
             r \in [dst : {"/v/a.mp4"}, success : BOOLEAN, sig : {FreshSig}],
             q \in [dst : {"/w/b.mp4"}, success : {TRUE},
                    sig : {None, FreshSig}] }

\* A store that is missing or holds a complete snapshot; no save under way.
InitSave ==
    /\ FFMPEG_BIN = "ffmpeg"
    /\ FFPROBE_BIN = "ffprobe"
    /\ fs = [p \in Files |-> IF p \in Sources THEN FreshSig ELSE NoFile]
    /\ store \in {NoFile} \cup {Dump(d) : d \in SaveData}
    /\ tasks = <<>>
    /\ outcome = <<>>
    /\ opts = IdleOpts
    /\ tmp = NoFile
    /\ failed_txt = <<>>
    /\ db = EmptyDb
    /\ NoRun
    /\ made_by = Unmade
    /\ NoCleanup
    /\ probe = None
    /\ NoSave

\* save_json is entered with some mapping; open(tmp, "w") creates or
\* truncates the temporary file
SaveOpen ==
    /\ spc \in {"idle", "done", "crashed", "raised"}
    /\ nsaves < MaxSaves
    /\ db' \in SaveData
    /\ sold' = store
    /\ nsaves' = nsaves + 1
    /\ loaded' = None
    /\ LET files == write_tmp(SaveFiles(store, tmp), Content(EmptyDb, FALSE))
       IN  store' = files.store /\ tmp' = files.tmp
    /\ spc' = "write"
    /\ UNCHANGED << FFMPEG_BIN, FFPROBE_BIN, fs, failed_txt, tasks, opts, pc,
                    idx, success, skipped, ok, stop_flag, ui_queue, calls,
                    outcome, last, removed_by_run, run_no, first_run,
                    touched, made_by, probe >>
    /\ UNCHANGED cleanVars

\* json.dump writes the next entry
SaveWrite ==
    /\ spc = "write"
    /\ \E k \in DOMAIN db \ DOMAIN tmp.data :
          LET files == write_tmp(SaveFiles(store, tmp),
                                 Content(Put(tmp.data, k, db[k]), FALSE))
          IN  store' = files.store /\ tmp' = files.tmp
    /\ UNCHANGED << FFMPEG_BIN, FFPROBE_BIN, fs, failed_txt, touched, made_by, probe,
                    spc, sold, nsaves, loaded >>
    /\ UNCHANGED runVars
    /\ UNCHANGED cleanVars

\* json.dump writes the end of the text and the with block closes the file
SaveClose ==
    /\ spc = "write"
    /\ DOMAIN tmp.data = DOMAIN db
    /\ LET files == write_tmp(SaveFiles(store, tmp), Dump(db))
       IN  store' = files.store /\ tmp' = files.tmp
    /\ spc' = "replace"
    /\ UNCHANGED << FFMPEG_BIN, FFPROBE_BIN, fs, failed_txt, touched, made_by, probe,
                    sold, nsaves, loaded >>
    /\ UNCHANGED runVars
    /\ UNCHANGED cleanVars

\* os.replace(tmp, path); it raises when the system refuses the rename
SaveReplace ==
    /\ spc = "replace"
    /\ \E replace_ok \in BOOLEAN :
          IF replace_ok
          THEN /\ store' = replace(SaveFiles(store, tmp)).store
               /\ tmp' = replace(SaveFiles(store, tmp)).tmp
               /\ spc' = "done"
          ELSE /\ spc' = "raised"
               /\ UNCHANGED << store, tmp >>
    /\ UNCHANGED << FFMPEG_BIN, FFPROBE_BIN, fs, failed_txt, touched, made_by, probe,
                    sold, nsaves, loaded >>
    /\ UNCHANGED runVars
    /\ UNCHANGED cleanVars

\* the process is killed inside save_json: the files stay as they are
SaveCrash ==
    /\ spc \in {"write", "replace"}
    /\ spc' = "crashed"
    /\ UNCHANGED << FFMPEG_BIN, FFPROBE_BIN, fs, store, tmp, failed_txt,
                    touched, made_by, probe, sold, nsaves, loaded >>
    /\ UNCHANGED runVars
    /\ UNCHANGED cleanVars

\* another thread (the cleanup pass) calls load_json while the save is
\* under way
ConcurrentLoad ==
    /\ spc \in {"write", "replace", "done"}
    /\ loaded = None
    /\ loaded' = load_json(store)
    /\ UNCHANGED << FFMPEG_BIN, FFPROBE_BIN, fs, store, tmp, failed_txt,
                    touched, made_by, probe, spc, sold, nsaves >>
    /\ UNCHANGED runVars
    /\ UNCHANGED cleanVars

NextSave ==
    \/ SaveOpen
    \/ SaveWrite
    \/ SaveClose
    \/ SaveReplace
    \/ SaveCrash
    \/ ConcurrentLoad

SpecSave == InitSave /\ [][NextSave]_vars

-----------------------------------------------------------------------------
(* Two runs over the same queue *)

\* Start is pressed with the default options (force off, no delete-after
\* policy); nothing is in the store.
InitRerun ==
    /\ FFMPEG_BIN = "ffmpeg"
    /\ FFPROBE_BIN = "ffprobe"
    /\ tasks \in Queues
    /\ outcome = Pending(tasks)
    /\ fs = HistFs([s \in Sources |-> "fresh"])
    /\ store = NoFile
    /\ opts = IdleOpts
    /\ tmp = NoFile
    /\ failed_txt = <<>>
    /\ db = EmptyDb
    /\ NoRun
    /\ made_by = Unmade
    /\ NoCleanup
    /\ probe = None
    /\ NoSave

\* the first worker is done; Start is pressed again with the same listbox
\* and the same options: App.start builds a new ConverterWorker
Restart ==
    /\ pc = "done"
    /\ run_no = 1
    /\ pc' = "idle"
    /\ first_run' = outcome
    /\ outcome' = Pending(tasks)
    /\ ui_queue' = <<>>
    /\ stop_flag' = FALSE
    /\ UNCHANGED << FFMPEG_BIN, FFPROBE_BIN, fs, store, tmp, failed_txt,
                    tasks, opts, db, idx, success, skipped, ok, calls, last,
                    removed_by_run, run_no, touched, made_by, probe >>
    /\ UNCHANGED cleanVars
    /\ UNCHANGED saveVars

\* between the two runs somebody edits a source or removes a converted file
Touch ==
    /\ pc = "done"
    /\ run_no = 1
    /\ ~touched
    /\ touched' = TRUE
    /\ \E i \in DOMAIN tasks :
          \/ fs' = [fs EXCEPT ![tasks[i]] = Sig(10, 200)]
          \/ fs' = [fs EXCEPT ![DestOf[tasks[i]]] = NoFile]
    /\ UNCHANGED << FFMPEG_BIN, FFPROBE_BIN, store, tmp, failed_txt,
                    made_by, probe >>
    /\ UNCHANGED runVars
    /\ UNCHANGED cleanVars
    /\ UNCHANGED saveVars

NextRerun ==
    \/ RunStart
    \/ RunFinish
    \/ TaskSkip
    \/ TaskDispatch
    \/ ProcessMkvProbe
    \/ ProcessMkvPrimary
    \/ ProcessMkvPrimaryDone
    \/ ProcessMkvFallback
    \/ ProcessMkvFallbackDone
    \/ ProcessTranscode
    \/ ProcessTranscodeDone
    \/ TaskRecord
    \/ Restart
    \/ Touch

SpecRerun == InitRerun /\ [][NextRerun]_vars

-----------------------------------------------------------------------------
(* Properties of a conversion run *)

Contains(seq, x) == \E k \in 1..Len(seq) : seq[k] = x

Conversions(cs) == SelectSeq(cs, LAMBDA c : c.kind = "convert")

\* the last conversion exited 0 and left a non-empty destination
LastOk(l) == l # None /\ l.rc = 0 /\ l.size > 0

InHand == pc \in {"mkv", "mkv_fallback", "transcode", "record"}

\* the task at index i has a record that says success, carries the
\* signature the source has now, and its destination exists
Unchanged(i) ==
    LET src == tasks[i]
    IN  /\ src \in DOMAIN db
        /\ db[src].success = TRUE
        /\ exists(fs, src)
        /\ db[src].sig = [size |-> fs[src].size, mtime_ns |-> fs[src].mtime_ns]
        /\ exists(fs, DestOf[src])

C2_Step ==
    /\ (pc = "loop" /\ idx' = idx + 1 /\ ~opts.force /\ Unchanged(idx + 1))
          => /\ outcome'[idx + 1] = "skipped"
             /\ pc' = "loop"
             /\ calls' = <<>>
             /\ skipped' = skipped + 1
    /\ \A i \in DOMAIN outcome :
          (outcome[i] # "skipped" /\ outcome'[i] = "skipped")
             => pc = "loop" /\ pc' = "loop" /\ calls' = <<>> /\ fs' = fs

\* C2: with force off, a task whose record says success, whose stored
\* signature is the source's current one and whose destination exists is
\* classified skipped, and no external process is run for it: the worker
\* goes from one task boundary to the next without entering process_mkv or
\* process_transcode.
C2_SkipUnchanged == [][C2_Step]_vars

C2_Witness ==
    /\ pc = "loop"
    /\ idx >= 1
    /\ ~opts.force
    /\ outcome[idx] = "skipped"
    /\ calls = <<>>

IsMkv(i) == ExtTable[tasks[i]] = ".mkv"

PrimaryCmds(src) ==
    { build_ffmpeg_cmd_remux_mkv(src, DestOf[src], ta, FALSE) : ta \in BOOLEAN }

FallbackCmd(src) == build_ffmpeg_cmd_remux_mkv(src, DestOf[src], TRUE, FALSE)

C5_Step ==
    /\ (pc = "loop" /\ pc' = "mkv") => IsMkv(idx') /\ calls' = <<>>
    /\ pc = "mkv" => pc' \in {"mkv", "record", "mkv_fallback", "loop", "dead"}
    /\ (pc = "mkv" /\ pc' = "mkv" /\ calls' # calls)
          => \/ calls = <<>> /\ calls' = << ProbeCall >>
             \/ /\ calls = << ProbeCall >>
                /\ Len(calls') = 2
                /\ calls'[1] = ProbeCall
                /\ calls'[2].kind = "convert"
                /\ calls'[2].cmd \in PrimaryCmds(tasks[idx])
    /\ (pc = "mkv" /\ pc' \in {"record", "mkv_fallback"})
          => /\ calls' = calls
             /\ Len(calls) = 2
             /\ calls[2].cmd \in PrimaryCmds(tasks[idx])
             /\ last' = Ended(last'.rc, fs, DestOf[tasks[idx]])
             /\ ok' = LastOk(last')
             /\ LastOk(last') = (pc' = "record")
    /\ pc = "mkv_fallback" => pc' \in {"mkv_fallback", "record", "loop", "dead"}
    /\ (pc = "mkv_fallback" /\ pc' = "mkv_fallback" /\ calls' # calls)
          => /\ Len(calls) = 2
             /\ calls' = Append(calls, Call("convert", FallbackCmd(tasks[idx])))
             /\ Contains(FallbackCmd(tasks[idx]), "aac")
             /\ ~Contains(FallbackCmd(tasks[idx]), "0:s?")
    /\ (pc = "mkv_fallback" /\ pc' = "record")
          => /\ calls' = calls
             /\ Len(calls) = 3
             /\ calls[3] = Call("convert", FallbackCmd(tasks[idx]))
             /\ last' = Ended(last'.rc, fs, DestOf[tasks[idx]])
             /\ ok' = LastOk(last')
    /\ (pc = "record" /\ IsMkv(idx) /\ pc' = "loop" /\ failed_txt' = failed_txt)
          => outcome'[idx] = IF LastOk(last) THEN "converted" ELSE "failed"
    /\ (InHand' /\ IsMkv(idx')) => Len(Conversions(calls')) <= 2

\* C5: a .mkv task that is not skipped runs the primary remux command first;
\* when it exits 0 with an existing non-empty destination the task is
\* converted after that one conversion and no fallback is run; otherwise the
\* fallback command (AAC forced, no subtitle mapping) is run once, after the
\* primary, and its exit code and destination decide between converted and
\* failed.  There are never more than two conversions for the task.
C5_MkvPrimaryThenFallback == [][C5_Step]_vars

C5_Witness ==
    /\ pc = "record"
    /\ IsMkv(idx)
    /\ Len(Conversions(calls)) = 2
    /\ calls[2].cmd # calls[3].cmd
    /\ ok

C6_Step ==
    /\ (pc = "loop" /\ pc' = "transcode")
          => ExtTable[tasks[idx']] \in {".webm", ".ogv"} /\ calls' = <<>>
    /\ (pc = "loop" /\ idx' = idx + 1 /\ pc' # "loop")
          => pc' = IF IsMkv(idx') THEN "mkv" ELSE "transcode"
    /\ pc = "transcode" => pc' \in {"transcode", "record", "loop", "dead"}
    /\ (pc = "transcode" /\ pc' = "record")
          => /\ calls' = << Call("convert",
                    build_ffmpeg_cmd_transcode(tasks[idx], DestOf[tasks[idx]],
                        opts.crf, opts.preset, opts.tune, opts.lossless)) >>
             /\ ok' = LastOk(last')
    /\ (pc = "record" /\ ~IsMkv(idx) /\ pc' = "loop"
           /\ failed_txt' = failed_txt)
          => /\ outcome'[idx] = IF LastOk(last) THEN "converted" ELSE "failed"
             /\ Len(calls) = 1

\* C6: a .webm or .ogv task that is not skipped runs exactly one conversion,
\* the transcode command built from the run's options; it is converted
\* exactly when that process exited 0 and the destination exists with a
\* size above 0, and failed otherwise, with no second attempt.
C6_TranscodeOnce == [][C6_Step]_vars

C6_Witness ==
    /\ pc = "record"
    /\ ~IsMkv(idx)
    /\ Len(calls) = 1
    /\ last.rc = 0
    /\ last.size = 0
    /\ ~ok

ProgressPut(i) == Contains(ui_queue, Progress(i, total))

\* C8: at every task boundary of a run the store on disk holds exactly the
\* worker's mapping, with a record for every task processed so far, and the
\* progress message of each of them is on the queue; while a task is in
\* hand, and after the worker died in the exception handler, the store
\* still has the records of all earlier tasks.
C8_PersistedAfterEveryTask ==
    /\ pc \in {"loop", "done"} /\ run_no > 0
          => /\ load_json(store) = db
             /\ \A i \in 1..idx :
                   /\ tasks[i] \in DOMAIN load_json(store)
                   /\ ProgressPut(i)
    /\ InHand \/ pc = "dead"
          => \A i \in 1..(idx - 1) :
                /\ tasks[i] \in DOMAIN load_json(store)
                /\ load_json(store)[tasks[i]] = db[tasks[i]]
                /\ ProgressPut(i)

C8_Witness ==
    /\ pc = "loop"
    /\ idx = 2
    /\ outcome[1] = "failed"
    /\ outcome[2] = "converted"
    /\ load_json(store)[tasks[1]].success = FALSE
    /\ load_json(store)[tasks[2]].success = TRUE

\* C9: when the run has ended, every task counted as converted has a
\* record with success true, its destination path and a signature of the
\* source.  The exception handler of run() breaks this when delete_file
\* raises after the conversion was recorded and counted.
C9_ConvertedIsRecorded ==
    pc = "done"
       => \A i \in DOMAIN tasks :
             outcome[i] = "converted"
                => /\ tasks[i] \in DOMAIN load_json(store)
                   /\ load_json(store)[tasks[i]].success = TRUE
                   /\ load_json(store)[tasks[i]].dst = DestOf[tasks[i]]
                   /\ load_json(store)[tasks[i]].sig \in Sigs

Covered(policy, ext) ==
    \/ policy = AllPolicy
    \/ policy.kind = "set" /\ ext \in policy.exts

\* C10: a source is gone only if the run's delete-after step removed it,
\* and then its task ended converted in this run, a policy is configured
\* that covers its extension, and dry_run is off.
C10_DeleteAfterOnlyConverted ==
    \A s \in Sources :
        ~exists(fs, s) \/ s \in removed_by_run
           => /\ s \in removed_by_run
              /\ ~exists(fs, s)
              /\ \E i \in 1..idx : tasks[i] = s /\ outcome[i] = "converted"
              /\ opts.delete_after_policy # NoPolicy
              /\ Covered(opts.delete_after_policy, ExtTable[s])
              /\ ~opts.dry_run

C10_Witness ==
    \E i \in 1..idx :
        /\ outcome[i] = "converted"
        /\ ~exists(fs, tasks[i])
        /\ \E j \in DOMAIN tasks : outcome[j] = "failed" /\ exists(fs, tasks[j])

\* the worker thread has left run(), by returning or by an exception
Terminated == pc \in {"done", "dead"}

\* C12: an exception while one task is processed never aborts the run: a
\* worker that has left run() with the tool available has gone through
\* every task (unless a stop was requested) and its last two messages are
\* the summary and "done"; every task that ended failed has a stored record
\* with success false.
C12_OneBadFileNeverAbortsRun ==
    (Terminated /\ FFMPEG_BIN # "")
       => /\ stop_flag \/ idx = total
          /\ Len(ui_queue) >= 2
          /\ ui_queue[Len(ui_queue)] = Done
          /\ ui_queue[Len(ui_queue) - 1] = Summary(success, total, skipped)
          /\ \A i \in 1..idx :
                outcome[i] = "failed"
                  => /\ store.exists
                     /\ Get(load_json(store), tasks[i]) # None
                     /\ Get(load_json(store), tasks[i]).success = FALSE

C13_Step ==
    stop_flag
       => /\ idx' = idx
          /\ pc = "loop"
                => /\ pc' = "done"
                   /\ ui_queue' = ui_queue \o << Summary(success, total, skipped),
                                                 Done >>
                   /\ calls' = <<>>
                   /\ store' = store /\ tmp' = tmp /\ db' = db
                   /\ fs' = fs /\ failed_txt' = failed_txt
          /\ pc = "mkv"
                => /\ pc' \in {"mkv", "mkv_fallback", "record", "loop", "dead"}
                   /\ pc' = "mkv"
                         => /\ Len(calls') = Len(calls) + 1
                            /\ Len(Conversions(calls')) <= 1
          /\ pc = "mkv_fallback" /\ pc' # "dead"
                => /\ pc' \in {"mkv_fallback", "record", "loop"}
                   /\ pc' = "mkv_fallback"
                         => Len(Conversions(calls)) = 1
                            /\ Len(Conversions(calls')) = 2
                   /\ pc' = "record" => Len(Conversions(calls')) = 2
          /\ pc = "record" /\ pc' # "dead"
                => /\ pc' = "loop"
                   /\ store' = Dump(db')
                   /\ Get(db', tasks[idx]) # None
                   /\ Get(db', tasks[idx]).success
                         = (outcome'[idx] = "converted" /\ failed_txt' = failed_txt)
                   /\ ui_queue' = Append(ui_queue, Progress(idx, total))

\* C13: once a stop is requested no further task is taken from the queue;
\* the task in hand goes on through its remaining steps (the MKV fallback
\* included) and is recorded and saved like any other; at the next loop
\* head the worker does nothing but emit the summary and "done": no
\* process is run and neither the store nor the failed list changes.
C13_StopAtTaskBoundary == [][C13_Step]_vars

C13_Witness ==
    /\ pc = "done"
    /\ stop_flag
    /\ total = 2
    /\ idx = 1
    /\ outcome[1] = "converted"
    /\ Get(load_json(store), tasks[1]) # None
    /\ Get(load_json(store), tasks[2]) = None
    /\ ui_queue[Len(ui_queue)] = Done
    /\ ui_queue[Len(ui_queue) - 1] = Summary(1, 2, 0)

C14_Step ==
    /\ FFMPEG_BIN = ""
          => /\ idx' = 0
             /\ calls' = <<>>
             /\ store' = store /\ tmp' = tmp /\ db' = EmptyDb
             /\ failed_txt' = failed_txt
             /\ fs' = fs
             /\ outcome' = Pending(tasks)
             /\ pc = "idle" /\ pc' = "done"
             /\ ui_queue' = << Done >>
    /\ FFMPEG_BIN # "" /\ pc = "idle"
          => /\ pc' = "loop"
             /\ db' = load_json(store)
             /\ ui_queue' = <<>>

\* C14: without the primary tool run() only puts "done": no task is
\* taken, no process is run, the store is not loaded into the worker's
\* mapping, and store, temporary file, failed list and media files stay as
\* they were.  With the primary tool, run() loads the store and enters the
\* loop whether or not the inspector tool was found.
C14_NoPrimaryToolNoRun == [][C14_Step]_vars

C14_Witness ==
    /\ FFMPEG_BIN = ""
    /\ pc = "done"
    /\ ui_queue = << Done >>
    /\ total = 2
    /\ idx = 0
    /\ Truthy(load_json(store))
    /\ db = EmptyDb
    /\ failed_txt = <<>>

\* how often path stands in failed.txt
Appended(path) == Cardinality({k \in 1..Len(failed_txt) : failed_txt[k] = path})

\* the tasks the loop has gone through that ended as oc
Ending(oc) == Cardinality({i \in 1..idx : outcome[i] = oc})

\* C25: at a task boundary and at the end of the run, every task gone
\* through ended skipped, converted or failed; the tallies of the summary
\* and the number of failed tasks add up to the number of tasks gone
\* through, the tallies count the tasks that ended that way, and a task's
\* path stands in failed.txt once when it ended failed, not at all
\* otherwise.
C25_TalliesAndFailedListAgree ==
    pc \in {"loop", "done"} /\ run_no = 1
       => /\ \A i \in 1..idx : outcome[i] \in {"skipped", "converted", "failed"}
          /\ success = Ending("converted")
          /\ skipped = Ending("skipped")
          /\ success + skipped + Ending("failed") = idx
          /\ \A i \in 1..idx :
                Appended(tasks[i]) = IF outcome[i] = "failed" THEN 1 ELSE 0

-----------------------------------------------------------------------------
(* Properties of the cleanup pass *)

\* the source lies under none of the scope paths: it is none of them and
\* in none of the folders among them
OutOfScope(src, roots) ==
    /\ roots # <<>>
    /\ \A k \in 1..Len(roots) :
          /\ abspath(roots[k]) # src
          /\ ~(/\ abspath(roots[k]) \in Dirs
               /\ Len(src) > Len(abspath(roots[k]))
               /\ SubSeq(src, 1, Len(abspath(roots[k])) + 1)
                     = abspath(roots[k]) \o "/")

\* one of the conditions of C1 holds for the record of src
Protected(src) ==
    \/ ~exists(fs, cdb[src].dst)
    \/ cdb[src].success # TRUE
    \/ OutOfScope(src, cargs.scope_paths)
    \/ cdb[src].sig = None
    \/ cdb[src].sig.size # fs[src].size
    \/ cdb[src].sig.mtime_ns # fs[src].mtime_ns

C1_Step ==
    \A s \in Sources :
        (exists(fs, s) /\ ~exists(fs', s))
           => /\ cpc = "loop"
              /\ s \in DOMAIN cdb
              /\ ~Protected(s)
              /\ ccount'["removed"] = ccount["removed"] + 1

\* C1: the cleanup pass removes a source only when its record says success,
\* the recorded destination exists, the source is inside the scope (or no
\* scope is given) and the recorded signature is present and equal to the
\* current one; each of the four conditions alone keeps the file, whatever
\* the policy and the permanent flag.
C1_CleanupNeverDeletesProtected == [][C1_Step]_vars

C1_Witness ==
    /\ cpc = "done"
    /\ ccount # None
    /\ ccount["removed"] = 1
    /\ ccount["missing_dst"] + ccount["skipped_not_success"]
          + ccount["skipped_scope"] + ccount["mismatched"] = 1
    /\ \E s \in DOMAIN cdb : exists(fs, s) /\ Protected(s)

C11_Step ==
    cargs.dry_run
       => /\ fs' = fs
          /\ (cpc = "loop" /\ ctodo' # ctodo)
                => /\ clast'.did \notin {"removed", "error"}
                   /\ ccount'["removed"] = 0

\* C11: with dry_run set the cleanup pass never gets to delete_file,
\* however many records pass every test: no step of the pass changes the
\* file system, no record ends as removed or as a deletion error, and the
\* removed tally stays 0.
C11_DryRunCleanupDeletesNothing == [][C11_Step]_vars

C11_Witness ==
    /\ cpc = "done"
    /\ cargs.dry_run
    /\ ccount # None
    /\ ccount["total_candidates"] = 2
    /\ ccount["skipped_not_success"] + ccount["missing_dst"]
          + ccount["missing_src"] + ccount["mismatched"] = 0
    /\ ccount["removed"] = 0
    /\ clast.did = "dry_run"
    /\ \A s \in DOMAIN cdb : exists(fs, s)

\* the step is a loop iteration in which delete_file raised
ErrorStep == cpc = "loop" /\ ctodo' # ctodo /\ clast'.did = "error"

C16_Step ==
    /\ ErrorStep
          => /\ cpc' = "loop"
             /\ ctodo' = ctodo \ {clast'.src}
             /\ fs' = fs
             /\ ccount' = [ccount EXCEPT !["total_candidates"] = @ + 1]
    /\ cpc = "loop"
          => \/ ctodo # {} /\ cpc' = "loop" /\ ctodo' # ctodo
                /\ ctodo' \subseteq ctodo
             \/ ctodo = {} /\ cpc' = "done" /\ ccount' = ccount
                /\ ccount["skipped_ext"] + ccount["skipped_scope"]
                      + ccount["total_candidates"] = Cardinality(DOMAIN cdb)

\* C16 (amended): a deletion that raises ends that record's iteration
\* only: the source stays, the pass goes on with the remaining records,
\* and when none is left it ends with its tallies, in which every record
\* of the store was counted as out of policy, out of scope or candidate.
\* The failure itself is not counted: the record was counted as a
\* candidate before, and no other tally changes.
C16_ErrorEndsOneRecordOnly == [][C16_Step]_vars

\* C16 (as stated): a record whose handling raised is counted in the
\* summary: the iteration changes a tally other than the count of
\* candidates, which is incremented before the record's outcome is known.
C16_ErrorIsTallied ==
    [][ErrorStep
          => \E t \in Tallies \ {"total_candidates"} : ccount'[t] # ccount[t]]_vars

C16_Witness ==
    /\ cpc = "done"
    /\ ccount # None
    /\ ccount["total_candidates"] = 2
    /\ ccount["removed"] = 1
    /\ ccount["skipped_not_success"] + ccount["missing_dst"]
          + ccount["missing_src"] + ccount["mismatched"] = 0
    /\ ~cargs.dry_run
    /\ clast.did = "removed"
    /\ \E s \in DOMAIN cdb : s # clast.src /\ exists(fs, s)

\* the first check of the loop body that the record of src fails, in the
\* order extension, scope, success, converted file, source, signature
FirstFailing(src) ==
    IF ~Covered(cargs.policy, ExtTable[src]) THEN "skipped_ext"
    ELSE IF OutOfScope(src, cargs.scope_paths) THEN "skipped_scope"
    ELSE IF cdb[src].success # TRUE THEN "skipped_not_success"
    ELSE IF ~exists(fs, cdb[src].dst) THEN "missing_dst"
    ELSE IF ~exists(fs, src) THEN "missing_src"
    ELSE IF \/ cdb[src].sig = None
            \/ cdb[src].sig.size # fs[src].size
            \/ cdb[src].sig.mtime_ns # fs[src].mtime_ns
    THEN "mismatched"
    ELSE "none"

\* the five outcomes a candidate is tallied under
Outcomes(c) ==
    c["skipped_not_success"] + c["missing_dst"] + c["missing_src"]
       + c["mismatched"] + c["removed"]

C26_Step ==
    /\ (cpc = "loop" /\ ctodo' # ctodo)
          => LET src  == clast'.src
                 ff   == FirstFailing(src)
                 gone == exists(fs, src) /\ ~exists(fs', src)
                 bumped ==
                     IF ff \in {"skipped_ext", "skipped_scope"} THEN {ff}
                     ELSE IF ff # "none" THEN {"total_candidates", ff}
                     ELSE IF gone THEN {"total_candidates", "removed"}
                     ELSE {"total_candidates"}
             IN  /\ src \in ctodo
                 /\ ctodo' = ctodo \ {src}
                 /\ \A t \in Tallies :
                       ccount'[t] = ccount[t] + IF t \in bumped THEN 1 ELSE 0
                 /\ gone => ff = "none" /\ ~cargs.dry_run
                 /\ (ff = "none" /\ ~gone)
                       => cargs.dry_run \/ clast'.did = "error"
    /\ (cpc = "loop" /\ cpc' = "done")
          => /\ ccount' = ccount
             /\ ccount["skipped_ext"] + ccount["skipped_scope"]
                   + ccount["total_candidates"] = Cardinality(DOMAIN cdb)
             /\ Outcomes(ccount) <= ccount["total_candidates"]
             /\ cargs.dry_run => ccount["removed"] = 0

\* C26 (amended): every record is tallied once, under the first check it
\* fails in the order extension, scope, success, converted file, source,
\* signature; a record that fails none is tallied as removed when its
\* source was deleted, and as a candidate only in a dry run or when the
\* deletion raised.  At the end the records are the two skip counts plus
\* the candidates, and the five outcomes of candidates add up to at most
\* the candidates.
C26_FirstFailingCheckIsTallied == [][C26_Step]_vars

\* C26 (as stated): at the end of a pass the records are the two skip
\* counts plus the candidates, and the candidates are the sum of their
\* five outcomes.
C26_TalliesAddUp ==
    cpc = "done" /\ ccount # None
       => /\ ccount["skipped_ext"] + ccount["skipped_scope"]
                + ccount["total_candidates"] = Cardinality(DOMAIN cdb)
          /\ ccount["total_candidates"] = Outcomes(ccount)

C26_Witness ==
    /\ cpc = "done"
    /\ ccount # None
    /\ cargs.dry_run
    /\ clast.did = "dry_run"
    /\ ccount["total_candidates"] = 2
    /\ ccount["mismatched"] = 1
    /\ Outcomes(ccount) = 1
    /\ \A s \in DOMAIN cdb : exists(fs, s)

-----------------------------------------------------------------------------
(* Properties of a cleanup pass during a run *)

\* the worker is between the dispatch of src and the record of its result
InFlight(src) ==
    /\ pc \in {"mkv", "mkv_fallback", "transcode", "record"}
    /\ tasks[idx] = src

\* the run in progress processed src and it ended failed
FailedInRun(src) ==
    \E i \in DOMAIN tasks : tasks[i] = src /\ outcome[i] = "failed"

\* the cleanup pass removes src in this step
CleanupRemoves(src) ==
    /\ cpc = "loop"
    /\ src \in ctodo
    /\ src \notin ctodo'
    /\ exists(fs, src)
    /\ ~exists(fs', src)

C23_Step ==
    \A src \in Sources :
        CleanupRemoves(src) => ~InFlight(src) /\ ~FailedInRun(src)

\* C23: a cleanup pass that overlaps a run removes a source only when the
\* latest conversion attempt for it has ended and succeeded: never while
\* the worker is converting it, never after the run recorded it as failed.
C23_CleanupWaitsForConversion == [][C23_Step]_vars

-----------------------------------------------------------------------------
(* Properties of the destination of a deleted source *)

\* src is removed in this step, by the delete-after step of the run or by
\* the cleanup pass
Deleted(src) == exists(fs, src) /\ ~exists(fs', src)

C24_Step ==
    \A src \in Sources :
        Deleted(src) => /\ exists(fs, DestOf[src])
                        /\ made_by[DestOf[src]] = src

\* C24: when a source is deleted, its destination exists and was written
\* last by the conversion of that very source, not by the conversion of
\* another source with the same destination.
C24_DeletedSourceOwnsDestination == [][C24_Step]_vars

-----------------------------------------------------------------------------
(* Properties of a damaged store *)

\* the store file is missing, is not JSON text, or is JSON for something
\* that is not a mapping
Damaged(c) == c = NoFile \/ ~c.closed \/ ~IsMapping(c.data)

C15_Step ==
    /\ Damaged(store) /\ pc = "idle" => pc' \in {"idle", "loop"}
    /\ Damaged(store) /\ cpc = "idle" => cpc' \in {"idle", "done"}
    /\ Damaged(store) /\ idx' # idx => pc' \in {"mkv", "transcode"}
    /\ Damaged(store) /\ store' # store
          => /\ pc' = "loop"
             /\ IsMapping(db')
             /\ store' = Dump(db')
    /\ pc' = "dead" => IsMapping(db')
    /\ cpc' # "dead"

\* C15: a store file that is missing or does not hold a mapping counts as
\* the empty store: run() enters its loop, the cleanup pass finds nothing
\* to clean and returns at once, while the file is damaged
\* every task the worker takes is processed rather than skipped, the
\* damaged file changes only when a save of the worker's mapping replaces
\* it, and neither the worker nor the cleanup pass is ended by an
\* exception over what was loaded.
C15_DamagedStoreIsEmptyStore == [][C15_Step]_vars

-----------------------------------------------------------------------------
(* Properties of already_done *)

\* C3: already_done is true exactly when the store has a record for the
\* source that says success, the destination exists, the source exists, and
\* the stored signature is present and equals the current one in size and
\* in modification time.
C3_AlreadyDoneIff ==
    probe # None
       => (probe.result
             <=> /\ probe.src \in DOMAIN db
                 /\ db[probe.src].success = TRUE
                 /\ fs[DestOf[probe.src]] # NoFile
                 /\ fs[probe.src] # NoFile
                 /\ db[probe.src].sig # None
                 /\ db[probe.src].sig.size = fs[probe.src].size
                 /\ db[probe.src].sig.mtime_ns = fs[probe.src].mtime_ns)

C3_Witness ==
    /\ probe # None
    /\ probe.result = FALSE
    /\ probe.src \in DOMAIN db
    /\ db[probe.src].success = TRUE
    /\ fs[DestOf[probe.src]] # NoFile
    /\ fs[probe.src] # NoFile
    /\ db[probe.src].sig # None
    /\ db[probe.src].sig.size = fs[probe.src].size
    /\ db[probe.src].sig.mtime_ns # fs[probe.src].mtime_ns

-----------------------------------------------------------------------------
(* Properties of the audio check *)

\* the audio streams the probing detects: those ffprobe reports, or, when
\* ffprobe is missing or fails, those named on the "Audio:" lines of
\* `ffmpeg -i`; none when that fails too
Detected ==
    IF FFPROBE_BIN # "" /\ ~probe.json.raised
    THEN SelectSeq(probe.json.streams, LAMBDA s : s.codec_type = "audio")
    ELSE IF probe.stderr_audio.raised THEN <<>>
    ELSE probe.stderr_audio.streams

\* the spellings of the two MP4-compatible codec names among CodecNames
\* and the names on the "Audio:" lines
CompatibleSpellings == {"aac", "AAC", "Mp3", "MP3"}

\* C17: the audio check answers true exactly when at least one audio
\* stream was detected whose codec name is, case ignored, neither aac nor
\* mp3; so it answers false when every detected stream is AAC or MP3 and
\* when none was detected, both probing strategies failing included.
C17_TranscodeAudioIff ==
    probe.applied
       => /\ probe.result
                = (\E i \in 1..Len(Detected) :
                      Detected[i].codec_name \notin CompatibleSpellings)
          /\ Detected = <<>> => ~probe.result
          /\ probe.json.raised /\ probe.stderr_audio.raised => ~probe.result

C17_Witness ==
    /\ probe.applied
    /\ probe.result
    /\ FFPROBE_BIN # ""
    /\ Len(Detected) = 2
    /\ Detected[1].codec_name = "AAC"
    /\ Detected[2].codec_name = "Opus"

-----------------------------------------------------------------------------
(* Properties of the command builders *)

\* the argument a follows the flag f somewhere in the command
HasPair(cmd, f, a) ==
    \E i \in 1..(Len(cmd) - 1) : cmd[i] = f /\ cmd[i + 1] = a

Occurrences(cmd, x) == Cardinality({i \in 1..Len(cmd) : cmd[i] = x})

Built(call) == probe.applied /\ probe.call = call

\* C18: a remux command built without audio transcoding has "-c:a copy"
\* and neither an AAC encoder nor a bitrate flag; built with audio
\* transcoding it has "-c:a aac" and "-b:a" with the fixed bitrate and no
\* "-c:a copy"; either way it has one audio codec flag, "-c:v copy", "-y",
\* the source after "-i", and the destination as its last argument.
C18_RemuxAudioFlags ==
    Built("remux")
       => LET cmd == probe.result
          IN  /\ ~probe.transcode_audio
                    => /\ HasPair(cmd, "-c:a", "copy")
                       /\ ~Contains(cmd, "aac")
                       /\ ~Contains(cmd, "-b:a")
              /\ probe.transcode_audio
                    => /\ HasPair(cmd, "-c:a", "aac")
                       /\ HasPair(cmd, "-b:a", AUDIO_BITRATE)
                       /\ ~HasPair(cmd, "-c:a", "copy")
              /\ Occurrences(cmd, "-c:a") = 1
              /\ HasPair(cmd, "-c:v", "copy")
              /\ Occurrences(cmd, "-c:v") = 1
              /\ Contains(cmd, "-y")
              /\ HasPair(cmd, "-i", probe.src)
              /\ cmd[Len(cmd)] = probe.dst

C18_Witness ==
    /\ Built("remux")
    /\ probe.transcode_audio
    /\ probe.keep_text_subs
    /\ HasPair(probe.result, "-c:a", "aac")
    /\ HasPair(probe.result, "-c:s", "mov_text")
    /\ probe.result[Len(probe.result)] = "/w/b.mp4"

\* C19: a transcode command has one "-crf" flag, followed by "0" when
\* lossless is set (the configured crf then appears nowhere, unless it is
\* "0" itself) and by the configured crf otherwise; without lossless the
\* configured preset follows "-preset"; "-tune" is there exactly when the
\* configured tune is not empty, and is followed by it; the audio is
\* encoded with "-c:a aac" at the fixed bitrate and never copied.
C19_TranscodeQualityFlags ==
    Built("transcode")
       => LET cmd == probe.result
          IN  /\ Occurrences(cmd, "-crf") = 1
              /\ probe.lossless
                    => /\ HasPair(cmd, "-crf", "0")
                       /\ probe.crf # "0" => ~Contains(cmd, probe.crf)
              /\ ~probe.lossless
                    => /\ HasPair(cmd, "-crf", probe.crf)
                       /\ HasPair(cmd, "-preset", probe.preset)
              /\ Occurrences(cmd, "-preset") = 1
              /\ Contains(cmd, "-tune") = (probe.tune # "")
              /\ probe.tune # "" => HasPair(cmd, "-tune", probe.tune)
              /\ HasPair(cmd, "-c:a", "aac")
              /\ HasPair(cmd, "-b:a", AUDIO_BITRATE)
              /\ Occurrences(cmd, "-c:a") = 1
              /\ ~HasPair(cmd, "-c:a", "copy")

C19_Witness ==
    /\ Built("transcode")
    /\ probe.lossless
    /\ probe.crf = DEFAULT_CRF
    /\ probe.tune = "film"
    /\ HasPair(probe.result, "-crf", "0")
    /\ HasPair(probe.result, "-tune", "film")

-----------------------------------------------------------------------------
(* Properties of collect_inputs *)

\* the files of the model whose extension is .mkv, .webm or .ogv in some
\* spelling
Recognized == {"/v/a.mkv", "/v/a.webm", "/v/s.mkv/c.MKV", "/w/b.OGV"}

\* the k-th given path leads to the file p: it is p, or a directory above p
Reaches(k, p) ==
    \/ probe.paths[k] = p
    \/ /\ probe.paths[k] \in TreeDirs
       /\ StartsWith(p, probe.paths[k] \o "/")

Reached(p) == \E k \in 1..Len(probe.paths) : Reaches(k, p)

FirstReach(p) ==
    CHOOSE k \in 1..Len(probe.paths) :
        Reaches(k, p) /\ \A j \in 1..(k - 1) : ~Reaches(j, p)

ParentDir(p) == SubSeq(p, 1, RFind(p, "/") - 1)

\* C20: what collect_inputs returns holds only existing files with a
\* recognized extension that were given or lie under a given directory,
\* holds every such file, holds no path twice, and is ordered by the first
\* given path that leads to each entry, a directory's own files coming
\* before those of its subdirectories.
C20_CollectInputs ==
    probe.applied
       => LET out == probe.result
          IN  /\ \A i \in 1..Len(out) :
                    /\ out[i] \in Recognized
                    /\ exists(fs, out[i])
                    /\ Reached(out[i])
              /\ \A p \in Recognized :
                    exists(fs, p) /\ Reached(p) => Contains(out, p)
              /\ \A i, j \in 1..Len(out) : i # j => out[i] # out[j]
              /\ \A i, j \in 1..Len(out) :
                    i < j
                      => /\ FirstReach(out[i]) <= FirstReach(out[j])
                         /\ FirstReach(out[i]) = FirstReach(out[j])
                               => ~StartsWith(out[i], ParentDir(out[j]) \o "/")
                                  \/ ParentDir(out[i]) = ParentDir(out[j])

C20_Witness ==
    /\ probe.applied
    /\ probe.paths = << "/v/s.mkv/c.MKV", "/v" >>
    /\ probe.order = "listed"
    /\ \A p \in TreeFiles : exists(fs, p)
    /\ probe.result = << "/v/s.mkv/c.MKV", "/v/a.mkv", "/v/a.webm" >>

-----------------------------------------------------------------------------
(* Properties of delete_file *)

C21_Step ==
    ~probe.applied /\ probe'.applied
       => /\ probe'.method \in {"trashed", "deleted", "raised"}
          /\ probe'.method = "trashed"
                <=> ~probe.permanent /\ probe.trash_ok /\ exists(fs, probe.path)
          /\ probe'.method = "deleted"
                => /\ probe.permanent \/ ~probe.trash_ok
                   /\ probe.remove_ok
          /\ probe'.method # "raised"
                => /\ exists(fs, probe.path)
                   /\ ~exists(fs', probe.path)
                   /\ \A p \in Files \ {probe.path} : fs'[p] = fs[p]
          /\ probe'.method = "raised" => fs' = fs

\* C21: delete_file sends the file to the trash exactly when permanent is
\* off and the trash works for it; it removes the file for good only
\* when permanent is on or the trash is not usable; a call that returns
\* reports trashed or deleted and leaves just that path absent; a call
\* that raises leaves every file as it was.
C21_TrashFirstUnlessPermanent == [][C21_Step]_vars

C21_Witness ==
    /\ probe.applied
    /\ ~probe.permanent
    /\ ~probe.trash_ok
    /\ probe.method = "deleted"
    /\ ~exists(fs, probe.path)

-----------------------------------------------------------------------------
(* Properties of the scope test *)

\* the components of a normalized path
Components(p) == NormComps(SplitPath(p), <<>>)

\* path lies under the folder root: the components of root are the first
\* components of path, and path has more of them
LiesUnder(path, root) ==
    /\ Len(Components(path)) > Len(Components(root))
    /\ SubSeq(Components(path), 1, Len(Components(root))) = Components(root)

\* the scope path names a folder
Folder(root) == \E d \in Dirs : Components(d) = Components(root)

InScope(path, roots) ==
    \/ roots = <<>>
    \/ \E k \in 1..Len(roots) :
          \/ Components(path) = Components(roots[k])
          \/ /\ Folder(roots[k])
             /\ LiesUnder(path, roots[k])

\* C22: a key of the store is in scope exactly when the scope list is
\* empty, or its normalized path is a normalized scope path, or it lies
\* under a scope path that is a folder.
C22_InScopeIff ==
    probe.applied => (probe.result <=> InScope(probe.path, probe.roots))

-----------------------------------------------------------------------------
(* Properties of save_json *)

Complete(c) == c = NoFile \/ c.closed

\* C7: whatever point a save has reached, crashed at or raised at, the
\* canonical file is the complete snapshot it held when the save was
\* entered or the complete new one, and a load_json running next to the
\* save returns one of the two mappings.
C7_StoreOldOrNew ==
    /\ Complete(store)
    /\ nsaves > 0
          => /\ store = sold \/ store = Dump(db)
             /\ spc \in {"write", "replace", "raised"} => store = sold
             /\ spc = "done" => store = Dump(db)
             /\ loaded # None => loaded = load_json(sold) \/ loaded = db

C7_Witness ==
    /\ spc = "crashed"
    /\ nsaves = 2
    /\ tmp # NoFile
    /\ ~tmp.closed
    /\ tmp.data # EmptyDb
    /\ store # NoFile
    /\ store # Dump(db)
    /\ loaded = store.data

-----------------------------------------------------------------------------
(* Properties of repeated runs *)

AllConverted(oc) == oc # <<>> /\ \A i \in DOMAIN oc : oc[i] = "converted"

\* C4: when the first run converted every task, no delete-after policy is
\* set, force is off and no file was touched in between, the second run
\* over the same queue never enters process_mkv or process_transcode, runs
\* no external process, and classifies every task it reaches as skipped;
\* at its end all tasks are skipped.
C4_SecondRunSkipsAll ==
    (/\ run_no = 2
     /\ AllConverted(first_run)
     /\ ~touched
     /\ ~opts.force
     /\ opts.delete_after_policy = NoPolicy)
       => /\ ~InHand
          /\ pc # "dead"
          /\ calls = <<>>
          /\ \A i \in 1..idx : outcome[i] = "skipped"
          /\ skipped = idx
          /\ success = 0
          /\ pc = "done" => idx = total

C4_Witness ==
    /\ run_no = 2
    /\ pc = "done"
    /\ AllConverted(first_run)
    /\ ~touched
    /\ ~opts.force
    /\ total = 2
    /\ skipped = 2
    /\ IsMkv(1)
    /\ ~IsMkv(2)

====
